---- MODULE Spec2Model ----
(***************************************************************************)
(* PostHog driver: the request executor (PostHogClient._make_request), its *)
(* error taxonomy and the driver-contract operation query(), modelled from *)
(* src/posthog_driver/client.py and src/posthog_driver/exceptions.py.      *)
(*                                                                         *)
(* One HTTP attempt is one step: the remote side (and the network) picks   *)
(* the outcome of session.request, the step runs the body of the retry     *)
(* loop on it and, when the loop ends, the rest of the calling operation.  *)
(*                                                                         *)
(* Six specifications share the variables: Spec runs the operations of a   *)
(* constructed client (the discovery contract, the domain operations,      *)
(* health_check); CtorSpec runs PostHogClient.__init__ on its arguments    *)
(* and environment; TemplateSpec runs execute_template of                  *)
(* src/agent_executor.py on a template, a variable mapping and a sandbox;  *)
(* ExecutorSpec runs the with statement of PostHogAgentExecutor around a   *)
(* batch_execute (log holds the calls made on the sandbox); ToolsSpec      *)
(* applies get_template, list_templates (src/script_templates.py) and      *)
(* question_to_query (src/claude_agent_with_posthog.py) to their inputs;   *)
(* AgentSpec runs the tool-call loops of run_claude_agent and of main in   *)
(* src/claude_generates_hogql.py (log holds the messages).                 *)
(***************************************************************************)
EXTENDS Integers, Sequences, FiniteSets, TLC

(* ------------------------------ bounds -------------------------------- *)

\* max_retries is drawn from -1 .. MaxRetriesBound (the constructor accepts any int)
MaxRetriesBound == 3

\* query strings are the character sequences of length 0 .. MaxQueryLen
MaxQueryLen == 2

\* trailing slashes on a base URL
MaxSlashes == 1

\* events in one capture_batch list
MaxBatchLen == 2

\* pieces in a script template
MaxTemplateLen == 3

\* words in a question put to question_to_query
MaxQuestionWords == 2

\* scripts in one batch_execute list
MaxScripts == 2

\* content blocks in one response of the LLM
MaxBlocks == 2

\* requests to the LLM in one conversation
MaxTurns == 3

(* ------------------------- program constants -------------------------- *)

DefaultTimeout == 30

DefaultMaxRetries == 3

(* ------------------------------ inputs -------------------------------- *)

\* the characters of a query string: one that is no whitespace, and two that
\* are (blank and newline)
Chars == {"q", " ", "\n"}

Whitespace == {" ", "\n"}

Timeouts == {DefaultTimeout, 5}

RetryCounts == (-1 .. MaxRetriesBound) \cup {DefaultMaxRetries}

ProjectIds == {"12345", "67890"}

\* hogql_query: None, or a str
NoneArg == [none |-> TRUE, str |-> <<>>]

StrArg(s) == [none |-> FALSE, str |-> s]

QueryStrings == UNION {[1 .. n -> Chars] : n \in 0 .. MaxQueryLen}

QueryArgs == {NoneArg} \cup {StrArg(s) : s \in QueryStrings}

(* -------------------------- error taxonomy ---------------------------- *)

\* exceptions.py: the base kind and its six subclasses
Taxonomy ==
    {"PostHogError", "AuthenticationError", "ObjectNotFoundError", "QueryError",
     "ConnectionError", "RateLimitError", "ValidationError"}

(* ------------------------------ values -------------------------------- *)

NoneValue == [type |-> "None"]

DictValue(f) == [type |-> "dict", fields |-> f]

ListValue(xs) == [type |-> "list", items |-> xs]

Return(v) == [kind |-> "return", value |-> v]

Raise(e, m) == [kind |-> "raise", exc |-> e, msg |-> m]

NoResult == [kind |-> "none"]

(* ------------------------ the remote side's answers ------------------- *)

\* a response body: its text and what response.json() makes of it
\* (InvalidJson: json() raises ValueError)
InvalidJson == [type |-> "invalid"]

Bodies ==
    { [text |-> "<html>oops</html>", json |-> InvalidJson],
      [text |-> "{results: [r1, r2]}", json |-> DictValue([results |-> <<"r1", "r2">>])],
      [text |-> "{detail: d}", json |-> DictValue([detail |-> "d"])],
      [text |-> "[]", json |-> ListValue(<<>>)] }

StatusCodes == {200, 204, 399, 400, 401, 403, 404, 429, 499, 500, 503}

\* what session.request can do: raise an exception of the requests library,
\* given by the set of the base classes the except clauses test for (a
\* connect timeout is both a ConnectionError and a Timeout) and its str(), or
\* return a response
RequestsExceptions ==
    { [bases |-> {"ConnectionError"}, str |-> "connection refused"],
      [bases |-> {"ConnectionError", "Timeout"}, str |-> "connect timed out"],
      [bases |-> {"Timeout"}, str |-> "read timed out"],
      [bases |-> {}, str |-> "too many redirects"] }

Outcomes ==
    {[type |-> "exception", exception |-> x] : x \in RequestsExceptions}
    \cup {[type |-> "response", status_code |-> s, body |-> b] :
            s \in StatusCodes, b \in Bodies}

NoResponse == [type |-> "none"]

Continue == [kind |-> "continue"]

(* ---------------------- PostHogClient.__init__ ------------------------ *)

\* an Optional[str]: None, or a string (a key or an identifier as one string,
\* a URL as the sequence of its pieces)
NoneStr == [none |-> TRUE, str |-> ""]

Str(s) == [none |-> FALSE, str |-> s]

NoneUrl == [none |-> TRUE, str |-> <<>>]

\* truth value of an Optional[str]: None and the empty string are false
Truthy(x) == ~x.none /\ Len(x.str) > 0

\* x or y
Or(x, y) == IF Truthy(x) THEN x ELSE y

\* os.getenv(name): the variable's value, None when it is not set
Getenv(env, name) == env[name]

\* os.getenv(name, default)
GetenvDefault(env, name, default) ==
    IF env[name].none THEN default ELSE env[name]

\* 'https://us.posthog.com'
DefaultApiUrl == Str(<<"https://", "us.", "posthog.com">>)

\* s.rstrip('/')
RECURSIVE RStripSlash(_)
RStripSlash(s) ==
    IF s # <<>> /\ s[Len(s)] = "/"
    THEN RStripSlash(SubSeq(s, 1, Len(s) - 1))
    ELSE s

\* s.replace(old, new) for a non-empty old: every occurrence, left to right,
\* without overlap, in one pass
RECURSIVE ReplaceAll(_, _, _)
ReplaceAll(s, old, new) ==
    IF Len(s) < Len(old) THEN s
    ELSE IF SubSeq(s, 1, Len(old)) = old
    THEN new \o ReplaceAll(SubSeq(s, Len(old) + 1, Len(s)), old, new)
    ELSE <<Head(s)>> \o ReplaceAll(Tail(s), old, new)

\* a slip: the explicit argument does not get precedence over the environment
ApiKeyOf_EnvFirst(args, env) ==
    Or(Getenv(env, "POSTHOG_PERSONAL_API_KEY"), args.api_key)

\* self.api_key = api_key or os.getenv('POSTHOG_PERSONAL_API_KEY')
ApiKeyOf(args, env) ==
    Or(args.api_key, Getenv(env, "POSTHOG_PERSONAL_API_KEY"))

\* self.api_url = (api_url or os.getenv('POSTHOG_API_URL', default)).rstrip('/')
ApiUrlOf(args, env) ==
    RStripSlash(Or(args.api_url,
                   GetenvDefault(env, "POSTHOG_API_URL", DefaultApiUrl)).str)

\* self.project_id = project_id or os.getenv('POSTHOG_PROJECT_ID')
ProjectIdOf(args, env) ==
    Or(args.project_id, Getenv(env, "POSTHOG_PROJECT_ID"))

\* self.project_api_key = project_api_key or os.getenv('POSTHOG_PROJECT_API_KEY')
ProjectApiKeyOf(args, env) ==
    Or(args.project_api_key, Getenv(env, "POSTHOG_PROJECT_API_KEY"))

\* a slip: the segment is put after posthog.com instead of before it
CaptureUrlOf_Suffix(api_url) ==
    ReplaceAll(api_url, <<"posthog.com">>, <<"posthog.com", "i.">>)

\* self.capture_url = self.api_url.replace('posthog.com', 'i.posthog.com')
CaptureUrlOf(api_url) ==
    ReplaceAll(api_url, <<"posthog.com">>, <<"i.", "posthog.com">>)

\* requests.Session() and the two headers put on it
SessionOf(api_key) ==
    [headers |-> [Authorization |-> <<"Bearer ", api_key>>,
                  ContentType |-> "application/json"]]

\* a slip: the project id is validated before the personal key
Validate_ProjectFirst(args, env) ==
    IF ~Truthy(ProjectIdOf(args, env))
    THEN Raise("PostHogError", <<"Project ID required.">>)
    ELSE IF ~Truthy(ApiKeyOf(args, env))
    THEN Raise("AuthenticationError", <<"Personal API key required.">>)
    ELSE NoResult

\* "# Validation": the two raises of __init__, NoResult when neither is taken
Validate(args, env) ==
    IF ~Truthy(ApiKeyOf(args, env))
    THEN Raise("AuthenticationError",
               <<"Personal API key required. Set via api_key parameter or ",
                 "POSTHOG_PERSONAL_API_KEY environment variable.">>)
    ELSE IF ~Truthy(ProjectIdOf(args, env))
    THEN Raise("PostHogError",
               <<"Project ID required. Set via project_id parameter or ",
                 "POSTHOG_PROJECT_ID environment variable.">>)
    ELSE NoResult

\* the object __init__ leaves when it raises nothing
NewClient(args, env) ==
    [api_url |-> ApiUrlOf(args, env),
     api_key |-> ApiKeyOf(args, env).str,
     project_id |-> ProjectIdOf(args, env).str,
     project_api_key |-> ProjectApiKeyOf(args, env),
     timeout |-> args.timeout,
     max_retries |-> args.max_retries,
     session |-> SessionOf(ApiKeyOf(args, env).str),
     capture_url |-> CaptureUrlOf(ApiUrlOf(args, env))]

\* no object: __init__ has not run, or it raised
NoClient == [constructed |-> FALSE]

\* the environment with none of the four variables set
EmptyEnv ==
    [POSTHOG_API_URL |-> NoneUrl,
     POSTHOG_PERSONAL_API_KEY |-> NoneStr,
     POSTHOG_PROJECT_ID |-> NoneStr,
     POSTHOG_PROJECT_API_KEY |-> NoneStr]

(* ------------------------------- state -------------------------------- *)

VARIABLES
    ctor,        \* what the client was constructed from: arguments, environment
    client,      \* the constructed PostHogClient: its configuration
    pc,          \* "idle", "attempting" (inside the retry loop) or "done"
    op,          \* the public operation in progress
    arg,         \* its argument
    n_calls,     \* how many times the operation has called _make_request
    call,        \* the arguments of the latest _make_request call
    attempt,     \* the loop variable of _make_request
    log,         \* the session.request calls made by the call so far
    outcome,     \* what the latest session.request did
    mr_result,   \* how _make_request ended
    op_result    \* how the public operation ended

vars == <<ctor, client, pc, op, arg, n_calls, call, attempt, log, outcome, mr_result, op_result>>

NoCall == [endpoint |-> <<>>, method |-> "", use_capture_url |-> FALSE, kwargs |-> <<>>]

(* --------------------- PostHogClient._make_request -------------------- *)

\* base_url = self.capture_url if use_capture_url else self.api_url
BaseUrl(c, use_capture_url) ==
    IF use_capture_url THEN c.capture_url ELSE c.api_url

\* url = f"{base_url}{endpoint}"
Url(c, cl) == BaseUrl(c, cl.use_capture_url) \o cl.endpoint

\* the session.request call of one attempt
Request(c, cl) ==
    [method |-> cl.method, url |-> Url(c, cl), timeout |-> c.timeout,
     kwargs |-> cl.kwargs]

\* a slip: the 403 case is missing
StatusError_No403(status_code, endpoint) ==
    IF status_code = 401
    THEN Raise("AuthenticationError",
               <<"Authentication failed. Check your Personal API key.">>)
    ELSE IF status_code = 404
    THEN Raise("ObjectNotFoundError", <<"Resource not found: ">> \o endpoint)
    ELSE IF status_code = 429
    THEN Raise("RateLimitError", <<"Rate limit exceeded.">>)
    ELSE Continue

\* "Handle specific status codes": the four raises before raise_for_status
StatusError(status_code, endpoint) ==
    IF status_code = 401
    THEN Raise("AuthenticationError",
               <<"Authentication failed. Check your Personal API key.">>)
    ELSE IF status_code = 403
    THEN Raise("AuthenticationError",
               <<"Access forbidden. Check API key permissions.">>)
    ELSE IF status_code = 404
    THEN Raise("ObjectNotFoundError", <<"Resource not found: ">> \o endpoint)
    ELSE IF status_code = 429
    THEN Raise("RateLimitError",
               <<"Rate limit exceeded. PostHog limits: 240/min, 1200/hour for ",
                 "analytics; 2400/hour for queries. Consider using batch exports.">>)
    ELSE Continue

\* response.raise_for_status() raises requests.HTTPError for 400..599
RaisesForStatus(status_code) == 400 <= status_code /\ status_code < 600

\* str(e) of the HTTPError of raise_for_status: status, kind, url (no body)
HTTPErrorStr(status_code, url) ==
    <<ToString(status_code),
      IF status_code < 500 THEN " Client Error for url: "
                           ELSE " Server Error for url: ">> \o url

\* try: return response.json()  except ValueError: return {success, status_code}
ResponseValue(status_code, body) ==
    IF body.json.type # "invalid"
    THEN body.json
    ELSE DictValue([success |-> TRUE, status_code |-> status_code])

\* except requests.ConnectionError as e
OnConnectionError(c, a, e) ==
    IF a = c.max_retries - 1
    THEN Raise("ConnectionError",
               <<"Failed to connect to PostHog API after ", ToString(c.max_retries),
                 " attempts: ", e.str>>)
    ELSE Continue

\* a slip: a timeout is raised at once, whatever the attempt
OnTimeout_NoRetry(c, a) ==
    Raise("PostHogError",
          <<"Request timeout after ", ToString(c.timeout), " seconds">>)

\* a slip: an exhausted timeout is reported as a connection failure
OnTimeout_AsConnectionError(c, a) ==
    IF a = c.max_retries - 1
    THEN Raise("ConnectionError",
               <<"Request timeout after ", ToString(c.timeout), " seconds">>)
    ELSE Continue

\* except requests.Timeout
OnTimeout(c, a) ==
    IF a = c.max_retries - 1
    THEN Raise("PostHogError",
               <<"Request timeout after ", ToString(c.timeout), " seconds">>)
    ELSE Continue

\* a slip: client errors are retried like server errors
OnHTTPError_Retry4xx(c, a, status_code, body, url) ==
    IF a = c.max_retries - 1
    THEN IF 400 <= status_code /\ status_code < 500
         THEN Raise("PostHogError", <<"API error: ", body.text>>)
         ELSE Raise("PostHogError", <<"HTTP error: ">> \o HTTPErrorStr(status_code, url))
    ELSE Continue

\* a slip: the client-error message leaves out the response body
OnHTTPError_NoBody(c, a, status_code, body, url) ==
    IF 400 <= status_code /\ status_code < 500
    THEN Raise("PostHogError", <<"API error: ", ToString(status_code)>>)
    ELSE IF a = c.max_retries - 1
    THEN Raise("PostHogError", <<"HTTP error: ">> \o HTTPErrorStr(status_code, url))
    ELSE Continue

\* except requests.HTTPError as e
OnHTTPError(c, a, status_code, body, url) ==
    IF 400 <= status_code /\ status_code < 500
    THEN Raise("PostHogError", <<"API error: ", body.text>>)
    ELSE IF a = c.max_retries - 1
    THEN Raise("PostHogError", <<"HTTP error: ">> \o HTTPErrorStr(status_code, url))
    ELSE Continue

\* a slip: a catch-all clause that swallows the exceptions the others do not name
OnException_SwallowOthers(c, a, e) ==
    IF "ConnectionError" \in e.bases THEN OnConnectionError(c, a, e)
    ELSE IF "Timeout" \in e.bases THEN OnTimeout(c, a)
    ELSE IF a = c.max_retries - 1
    THEN Raise("PostHogError", <<e.str>>)
    ELSE Continue

\* the except clauses, tried in the order written; an exception none of them
\* names leaves _make_request as it is
OnException(c, a, e) ==
    IF "ConnectionError" \in e.bases THEN OnConnectionError(c, a, e)
    ELSE IF "Timeout" \in e.bases THEN OnTimeout(c, a)
    ELSE Raise("requests.RequestException", <<e.str>>)

\* the try block on a response
OnResponse(c, cl, a, status_code, body) ==
    LET specific == StatusError(status_code, cl.endpoint) IN
    IF specific.kind # "continue" THEN specific
    ELSE IF RaisesForStatus(status_code)
    THEN OnHTTPError(c, a, status_code, body, Url(c, cl))
    ELSE Return(ResponseValue(status_code, body))

\* a slip: the handlers are given the first failure of the call, not the latest
AttemptBody_FirstFailureWins(c, cl, a, o) ==
    IF o.type = "exception"
    THEN IF log # <<>> /\ log[1].outcome.type = "exception"
         THEN OnException(c, a, [bases |-> log[1].outcome.bases,
                                 str |-> o.exception.str])
         ELSE OnException(c, a, o.exception)
    ELSE OnResponse(c, cl, a, o.status_code, o.body)

\* one pass through the body of the for loop: Continue, or how the call ends
AttemptBody(c, cl, a, o) ==
    IF o.type = "exception"
    THEN OnException(c, a, o.exception)
    ELSE OnResponse(c, cl, a, o.status_code, o.body)

\* a slip: a range with one pass too many
InRange_Inclusive(c, a) == 0 <= a /\ a <= c.max_retries

\* for attempt in range(self.max_retries): is there a pass numbered a
InRange(c, a) == 0 <= a /\ a < c.max_retries

\* what the log keeps of an outcome
Summary(o) ==
    IF o.type = "exception"
    THEN [type |-> "exception", bases |-> o.exception.bases]
    ELSE [type |-> "response", status_code |-> o.status_code]

(* -------------------------- PostHogClient.query ----------------------- *)

\* str.strip(): the string without its leading and trailing whitespace
RECURSIVE LStrip(_)
LStrip(s) ==
    IF s # <<>> /\ Head(s) \in Whitespace THEN LStrip(Tail(s)) ELSE s

RECURSIVE RStrip(_)
RStrip(s) ==
    IF s # <<>> /\ s[Len(s)] \in Whitespace
    THEN RStrip(SubSeq(s, 1, Len(s) - 1))
    ELSE s

Strip(s) == RStrip(LStrip(s))

\* a slip: only the emptiness test, without strip()
QueryIsEmpty_NoStrip(q) == q.none \/ q.str = <<>>

\* if not hogql_query or not hogql_query.strip()
QueryIsEmpty(q) == q.none \/ q.str = <<>> \/ Strip(q.str) = <<>>

\* a slip: the query is sent to the capture host
QueryCall_CaptureHost(c, q) ==
    [endpoint |-> <<"/api/projects/", c.project_id, "/query/">>,
     method |-> "POST",
     use_capture_url |-> TRUE,
     kwargs |-> [json |-> [query |-> [kind |-> "HogQLQuery", query |-> q.str]]]]

\* endpoint = f'/api/projects/{self.project_id}/query/' and the arguments of
\* the _make_request call
QueryCall(c, q) ==
    [endpoint |-> <<"/api/projects/", c.project_id, "/query/">>,
     method |-> "POST",
     use_capture_url |-> FALSE,
     kwargs |-> [json |-> [query |-> [kind |-> "HogQLQuery", query |-> q.str]]]]

\* except PostHogError: the base kind or any subclass
IsPostHogError(exc) == exc \in Taxonomy

\* type(v).__name__
TypeName(v) == IF v.type = "None" THEN "NoneType" ELSE v.type

\* result.get('results', []) on what _make_request returned: the rows, or the
\* AttributeError of a value that is no dict
GetResults(v) ==
    IF v.type = "dict"
    THEN Return(ListValue(IF "results" \in DOMAIN v.fields
                          THEN v.fields.results
                          ELSE <<>>))
    ELSE Raise("AttributeError",
               <<"'", TypeName(v), "' object has no attribute 'get'">>)

\* a slip: without the except PostHogError clause every failure is wrapped
QueryExcept_WrapAll(r) ==
    IF r.kind # "raise"
    THEN r
    ELSE Raise("QueryError", <<"Query execution failed: ">> \o r.msg)

\* except PostHogError: raise / except Exception as e: raise QueryError(...)
QueryExcept(r) ==
    IF r.kind # "raise" \/ IsPostHogError(r.exc)
    THEN r
    ELSE Raise("QueryError", <<"Query execution failed: ">> \o r.msg)

\* the rest of query() once _make_request has ended with r
QueryFinish(r) ==
    QueryExcept(IF r.kind = "return" THEN GetResults(r.value) ELSE r)

(* --------------------- PostHogClient.get_project_info ----------------- *)

\* endpoint = f'/api/projects/{self.project_id}/'; return self._make_request(endpoint)
ProjectInfoCall(c) ==
    [endpoint |-> <<"/api/projects/", c.project_id, "/">>,
     method |-> "GET",
     use_capture_url |-> FALSE,
     kwargs |-> <<>>]

(* ------------------------- dicts and event inputs --------------------- *)

\* an Optional[Dict]: None, or a dict as the set of its items
NoneDict == [none |-> TRUE, dict |-> {}]

Dict(d) == [none |-> FALSE, dict |-> d]

\* d or {}
OrEmpty(d) == IF ~d.none /\ d.dict # {} THEN d.dict ELSE {}

\* the properties a caller passes: none, an empty dict, one property
PropertyArgs == {NoneDict, Dict({}), Dict({<<"plan", "pro">>})}

\* the events of a batch
Events ==
    {[event |-> "signup", distinct_id |-> "user_1"],
     [event |-> "purchase", distinct_id |-> "user_2"]}

\* the lists given to capture_batch: up to MaxBatchLen events, in any order,
\* repeats included
Batches == UNION {[1 .. n -> Events] : n \in 0 .. MaxBatchLen}

(* ---------------------- PostHogClient.capture_event ------------------- *)

CaptureEventArgs ==
    [event : {"signup"},
     distinct_id : {"user_1"},
     properties : PropertyArgs,
     timestamp : {NoneStr, Str("2024-01-01T00:00:00Z")}]

\* a slip: the project key is not required
CaptureEventCheck_NoCheck(c) == NoResult

\* if not self.project_api_key: raise AuthenticationError(...)
CaptureEventCheck(c) ==
    IF ~Truthy(c.project_api_key)
    THEN Raise("AuthenticationError",
               <<"Project API key required for event capture. ",
                 "Set via project_api_key parameter or POSTHOG_PROJECT_API_KEY env var.">>)
    ELSE NoResult

\* payload = {...}; if timestamp: payload['timestamp'] = timestamp
CaptureEventPayload(c, a) ==
    IF Truthy(a.timestamp)
    THEN [api_key |-> c.project_api_key.str,
          event |-> a.event,
          distinct_id |-> a.distinct_id,
          properties |-> OrEmpty(a.properties),
          timestamp |-> a.timestamp.str]
    ELSE [api_key |-> c.project_api_key.str,
          event |-> a.event,
          distinct_id |-> a.distinct_id,
          properties |-> OrEmpty(a.properties)]

\* self._make_request('/i/v0/e/', method='POST', use_capture_url=True, json=payload)
CaptureEventCall(c, a) ==
    [endpoint |-> <<"/i/v0/e/">>,
     method |-> "POST",
     use_capture_url |-> TRUE,
     kwargs |-> [json |-> CaptureEventPayload(c, a)]]

(* ---------------------- PostHogClient.capture_batch ------------------- *)

CaptureBatchArgs == [events : Batches]

\* a slip: the list is checked before the key
CaptureBatchCheck_ListFirst(c, a) ==
    IF a.events = <<>>
    THEN Raise("ValidationError", <<"Events list cannot be empty">>)
    ELSE IF ~Truthy(c.project_api_key)
    THEN Raise("AuthenticationError",
               <<"Project API key required for event capture">>)
    ELSE NoResult

\* the two raises of capture_batch, in their order: the key, then the list
CaptureBatchCheck(c, a) ==
    IF ~Truthy(c.project_api_key)
    THEN Raise("AuthenticationError",
               <<"Project API key required for event capture">>)
    ELSE IF a.events = <<>>
    THEN Raise("ValidationError", <<"Events list cannot be empty">>)
    ELSE NoResult

\* self._make_request('/batch/', method='POST', use_capture_url=True,
\*                    json={'api_key': self.project_api_key, 'batch': events})
CaptureBatchCall(c, a) ==
    [endpoint |-> <<"/batch/">>,
     method |-> "POST",
     use_capture_url |-> TRUE,
     kwargs |-> [json |-> [api_key |-> c.project_api_key.str,
                           batch |-> a.events]]]

(* ---------------------- PostHogClient.evaluate_flag ------------------- *)

EvaluateFlagArgs ==
    [key : {"new-checkout"},
     distinct_id : {"user_1"},
     person_properties : {NoneDict, Dict({<<"plan", "pro">>})}]

\* if not self.project_api_key: raise AuthenticationError(...)
EvaluateFlagCheck(c) ==
    IF ~Truthy(c.project_api_key)
    THEN Raise("AuthenticationError",
               <<"Project API key required for flag evaluation">>)
    ELSE NoResult

\* payload = {...}; if person_properties: payload['person_properties'] = ...
EvaluateFlagPayload(c, a) ==
    IF OrEmpty(a.person_properties) # {}
    THEN [api_key |-> c.project_api_key.str,
          distinct_id |-> a.distinct_id,
          key |-> a.key,
          person_properties |-> a.person_properties.dict]
    ELSE [api_key |-> c.project_api_key.str,
          distinct_id |-> a.distinct_id,
          key |-> a.key]

\* a slip: the flags request is sent to the main host
EvaluateFlagCall_MainHost(c, a) ==
    [endpoint |-> <<"/flags/">>,
     method |-> "POST",
     use_capture_url |-> FALSE,
     kwargs |-> [json |-> EvaluateFlagPayload(c, a)]]

\* self._make_request('/flags/', method='POST', use_capture_url=True, json=payload)
EvaluateFlagCall(c, a) ==
    [endpoint |-> <<"/flags/">>,
     method |-> "POST",
     use_capture_url |-> TRUE,
     kwargs |-> [json |-> EvaluateFlagPayload(c, a)]]

(* ---------------------- PostHogClient.health_check -------------------- *)

\* True, False
BoolValue(b) == [type |-> "bool", value |-> b]

\* a slip: only the classified failures are reduced to False
HealthCheckFinish_ClassifiedOnly(r) ==
    IF r.kind = "raise" /\ ~IsPostHogError(r.exc)
    THEN r
    ELSE Return(BoolValue(r.kind = "return"))

\* try: self.get_project_info(); return True; except Exception: return False
HealthCheckFinish(r) == Return(BoolValue(r.kind = "return"))

(* ------------------ the operations on the main API host --------------- *)

\* an Optional[int]
NoneInt == [none |-> TRUE, int |-> 0]

Int_(n) == [none |-> FALSE, int |-> n]

\* one dict item when the optional string is given and not empty (if x: d[k] = x)
ItemIf(k, x) == IF Truthy(x) THEN {<<k, x.str>>} ELSE {}

\* {**d1, **d2}: the items of d2, and those of d1 whose key d2 does not have
Merge(d1, d2) == d2 \cup {p \in d1 : ~\E q \in d2 : q[1] = p[1]}

\* s.upper() on the insight types
Upper(s) ==
    CASE s = "trends" -> "TRENDS"
      [] s = "funnels" -> "FUNNELS"
      [] OTHER -> s

\* sep.join(parts), each part and the result a sequence of string pieces
RECURSIVE Join(_, _)
Join(parts, sep) ==
    IF parts = <<>> THEN <<>>
    ELSE IF Len(parts) = 1 THEN parts[1]
    ELSE parts[1] \o sep \o Join(Tail(parts), sep)

\* endpoint = f'/api/projects/{self.project_id}/<collection>/'
ProjectEndpoint(c, collection) == <<"/api/projects/", c.project_id, collection>>

\* self._make_request(endpoint): a GET with no keyword arguments
GetCall(c, collection) ==
    [endpoint |-> ProjectEndpoint(c, collection),
     method |-> "GET",
     use_capture_url |-> FALSE,
     kwargs |-> <<>>]

\* self._make_request(endpoint, params=params)
GetParamsCall(c, collection, params) ==
    [endpoint |-> ProjectEndpoint(c, collection),
     method |-> "GET",
     use_capture_url |-> FALSE,
     kwargs |-> [params |-> params]]

\* self._make_request(endpoint, method='POST', json=payload)
PostCall(c, collection, payload) ==
    [endpoint |-> ProjectEndpoint(c, collection),
     method |-> "POST",
     use_capture_url |-> FALSE,
     kwargs |-> [json |-> payload]]

GetInsightsArgs ==
    [insight_type : {NoneStr, Str("trends")}, limit : {100}, offset : {0}]

\* get_insights: params = {'limit', 'offset'} and, for a type, 'insight'
GetInsightsCall(c, a) ==
    GetParamsCall(c, "/insights/",
        {<<"limit", a.limit>>, <<"offset", a.offset>>}
            \cup (IF Truthy(a.insight_type)
                  THEN {<<"insight", Upper(a.insight_type.str)>>}
                  ELSE {}))

CreateInsightArgs ==
    [name : {"Signups"},
     insight_type : {"trends"},
     filters : {{<<"events", "signup">>}}]

\* create_insight: payload = {'name', 'filters': {'insight': TYPE, **filters}}
CreateInsightCall(c, a) ==
    PostCall(c, "/insights/",
        [name |-> a.name,
         filters |-> Merge({<<"insight", Upper(a.insight_type)>>}, a.filters)])

GetEventsArgs ==
    {[event_name |-> NoneStr, after |-> NoneStr, before |-> NoneStr,
      distinct_id |-> NoneStr, limit |-> 100],
     [event_name |-> Str("signup"), after |-> Str("2024-01-01"),
      before |-> NoneStr, distinct_id |-> Str("user_1"), limit |-> 100]}

\* conditions.append(f"<left>'{x}'") when x is given and not empty
ConditionIf(left, x) == IF Truthy(x) THEN <<<<left, x.str, "'">>>> ELSE <<>>

\* get_events: the HogQL text handed to query
GetEventsHogql(a) ==
    LET conditions == ConditionIf("event = '", a.event_name)
                          \o ConditionIf("timestamp >= '", a.after)
                          \o ConditionIf("timestamp <= '", a.before)
                          \o ConditionIf("distinct_id = '", a.distinct_id)
        where_clause == IF conditions # <<>>
                        THEN <<"WHERE ">> \o Join(conditions, <<" AND ">>)
                        ELSE <<>>
    IN  <<"SELECT * FROM events ">> \o where_clause
            \o <<" LIMIT ", ToString(a.limit)>>

\* an Optional[List[str]]
NoneList == [none |-> TRUE, list |-> <<>>]

List(xs) == [none |-> FALSE, list |-> xs]

ExportEventsArgs ==
    {[start_date |-> "2024-01-01", end_date |-> "2024-01-31",
      event_names |-> NoneList, properties_filter |-> <<>>],
     [start_date |-> "2024-01-01", end_date |-> "2024-01-31",
      event_names |-> List(<<"signup", "purchase">>),
      properties_filter |-> <<<<"plan", "pro">>>>]}

\* export_events: the HogQL text handed to query (properties_filter is the
\* dict's items in their order)
ExportEventsHogql(a) ==
    LET names == Join([i \in DOMAIN a.event_names.list |->
                          <<a.event_names.list[i]>>], <<"', '">>)
        conditions ==
            << <<"timestamp >= '", a.start_date, "'">>,
               <<"timestamp <= '", a.end_date, "'">> >>
            \o (IF a.event_names.list # <<>>
                THEN << <<"event IN ('">> \o names \o <<"')">> >>
                ELSE <<>>)
            \o [i \in DOMAIN a.properties_filter |->
                   <<"properties.", a.properties_filter[i][1], " = '",
                     a.properties_filter[i][2], "'">>]
    IN  <<"SELECT * FROM events ", "WHERE ">> \o Join(conditions, <<" AND ">>)

GetPersonsArgs ==
    {[search |-> NoneStr, cohort_id |-> NoneInt, properties |-> NoneDict,
      limit |-> 100],
     [search |-> Str("alice"), cohort_id |-> Int_(7),
      properties |-> Dict({<<"plan", "pro">>}), limit |-> 100]}

\* get_persons: params = {'limit'} and what was given of search, cohort,
\* properties
GetPersonsCall(c, a) ==
    GetParamsCall(c, "/persons/",
        {<<"limit", a.limit>>}
            \cup ItemIf("search", a.search)
            \cup (IF ~a.cohort_id.none /\ a.cohort_id.int # 0
                  THEN {<<"cohort", a.cohort_id.int>>} ELSE {})
            \cup (IF OrEmpty(a.properties) # {}
                  THEN {<<"properties", a.properties.dict>>} ELSE {}))

GetCohortsArgs == [search : {NoneStr, Str("power users")}]

\* get_cohorts: params = {} and, when given, 'search'
GetCohortsCall(c, a) ==
    GetParamsCall(c, "/cohorts/", ItemIf("search", a.search))

CreateCohortArgs ==
    [name : {"Power users"},
     description : {""},
     filters : {NoneDict, Dict({<<"plan", "pro">>})}]

\* create_cohort: payload = {'name', 'description', 'filters': filters or {}}
CreateCohortCall(c, a) ==
    PostCall(c, "/cohorts/",
        [name |-> a.name,
         description |-> a.description,
         filters |-> OrEmpty(a.filters)])

\* get_feature_flags
GetFeatureFlagsCall(c) == GetCall(c, "/feature_flags/")

\* get_experiments
GetExperimentsCall(c) == GetCall(c, "/experiments/")

GetAnnotationsArgs ==
    {[start_date |-> NoneStr, end_date |-> NoneStr],
     [start_date |-> Str("2024-01-01"), end_date |-> Str("2024-01-31")]}

\* get_annotations: params = {} and, when given, 'after' and 'before'
GetAnnotationsCall(c, a) ==
    GetParamsCall(c, "/annotations/",
        ItemIf("after", a.start_date) \cup ItemIf("before", a.end_date))

CreateAnnotationArgs ==
    [content : {"Release 2.0"},
     date_marker : {NoneStr, Str("2024-01-15")},
     scope : {"project"}]

\* create_annotation: payload = {'content', 'scope'} and, when given,
\* 'date_marker'
CreateAnnotationCall(c, a) ==
    PostCall(c, "/annotations/",
        {<<"content", a.content>>, <<"scope", a.scope>>}
            \cup ItemIf("date_marker", a.date_marker))

(* ------------- PostHogClient.list_objects and get_fields -------------- *)

\* a slip: experiments is left out of the list
ObjectNames_NoExperiments ==
    <<"events", "insights", "persons", "cohorts", "feature_flags",
      "sessions", "annotations">>

\* the list list_objects returns
ObjectNames ==
    <<"events", "insights", "persons", "cohorts", "feature_flags",
      "sessions", "annotations", "experiments">>

\* list_objects()
ListObjectsResult == Return(ListValue(ObjectNames))

\* the schemas dict of get_fields: for each object type, its fields and what
\* is recorded of each
Schemas ==
    "events" :> (
        "event" :> [type |-> "string",
            description |-> "Event name (e.g., \"User Signup\", \"Button Click\")"] @@
        "timestamp" :> [type |-> "datetime",
            description |-> "When the event occurred (ISO 8601 format)"] @@
        "distinct_id" :> [type |-> "string",
            description |-> "Unique user identifier"] @@
        "properties" :> [type |-> "object",
            description |-> "Event properties (custom key-value pairs)"] @@
        "person" :> [type |-> "object",
            description |-> "Associated person object with user properties"]) @@
    "insights" :> (
        "id" :> [type |-> "string",
            description |-> "Unique insight ID"] @@
        "name" :> [type |-> "string",
            description |-> "Insight name"] @@
        "filters" :> [type |-> "object",
            description |-> "Insight configuration (events, date ranges, filters)"] @@
        "result" :> [type |-> "array",
            description |-> "Computed insight results (trends, funnel steps, etc.)"] @@
        "insight" :> [type |-> "string",
            description |-> "Insight type: TRENDS, FUNNELS, RETENTION, PATHS"] @@
        "created_at" :> [type |-> "datetime",
            description |-> "Creation timestamp"]) @@
    "persons" :> (
        "id" :> [type |-> "string",
            description |-> "Person UUID"] @@
        "distinct_ids" :> [type |-> "array",
            description |-> "List of distinct IDs for this person"] @@
        "properties" :> [type |-> "object",
            description |-> "Person properties (email, name, custom attributes)"] @@
        "created_at" :> [type |-> "datetime",
            description |-> "First seen timestamp"]) @@
    "cohorts" :> (
        "id" :> [type |-> "number",
            description |-> "Cohort ID"] @@
        "name" :> [type |-> "string",
            description |-> "Cohort name"] @@
        "description" :> [type |-> "string",
            description |-> "Cohort description"] @@
        "filters" :> [type |-> "object",
            description |-> "Cohort definition (behavioral/property filters)"] @@
        "count" :> [type |-> "number",
            description |-> "Number of persons in cohort"]) @@
    "feature_flags" :> (
        "id" :> [type |-> "number",
            description |-> "Flag ID"] @@
        "key" :> [type |-> "string",
            description |-> "Flag key (identifier)"] @@
        "name" :> [type |-> "string",
            description |-> "Flag name"] @@
        "active" :> [type |-> "boolean",
            description |-> "Whether flag is active"] @@
        "rollout_percentage" :> [type |-> "number",
            description |-> "Percentage of users with flag enabled"] @@
        "filters" :> [type |-> "object",
            description |-> "Targeting rules and conditions"]) @@
    "sessions" :> (
        "session_id" :> [type |-> "string",
            description |-> "Unique session ID"] @@
        "distinct_id" :> [type |-> "string",
            description |-> "User identifier"] @@
        "start_time" :> [type |-> "datetime",
            description |-> "Session start"] @@
        "end_time" :> [type |-> "datetime",
            description |-> "Session end"] @@
        "events_count" :> [type |-> "number",
            description |-> "Number of events in session"] @@
        "recording_url" :> [type |-> "string",
            description |-> "URL to session replay (if available)"]) @@
    "annotations" :> (
        "id" :> [type |-> "number",
            description |-> "Annotation ID"] @@
        "content" :> [type |-> "string",
            description |-> "Annotation text"] @@
        "date_marker" :> [type |-> "datetime",
            description |-> "Date marked on timeline"] @@
        "scope" :> [type |-> "string",
            description |-> "organization or project"]) @@
    "experiments" :> (
        "id" :> [type |-> "number",
            description |-> "Experiment ID"] @@
        "name" :> [type |-> "string",
            description |-> "Experiment name"] @@
        "feature_flag_key" :> [type |-> "string",
            description |-> "Associated feature flag"] @@
        "variants" :> [type |-> "array",
            description |-> "Experiment variants (control, test)"] @@
        "results" :> [type |-> "object",
            description |-> "Statistical analysis results"])

\* the names get_fields is asked for: the object types, and names that are
\* none (another word, the empty string, another case, a singular)
ObjectNameArgs ==
    {ObjectNames[i] : i \in DOMAIN ObjectNames}
        \cup {"nonexistent", "", "Events", "event"}

\* get_fields(object_name): the schema, or the ObjectNotFoundError that
\* names what list_objects returns
GetFieldsResult(object_name) ==
    IF object_name \notin DOMAIN Schemas
    THEN Raise("ObjectNotFoundError",
               <<"Unknown object type '", object_name, "'. ",
                 "Available types: ">>
                   \o Join([i \in DOMAIN ObjectNames |-> <<ObjectNames[i]>>],
                           <<", ">>))
    ELSE Return(DictValue(Schemas[object_name]))

(* ------------------------ the operations' endings --------------------- *)

\* the operations that end with result.get('results', [])
ListOperations ==
    {"get_insights", "get_persons", "get_cohorts", "get_feature_flags",
     "get_experiments", "get_annotations"}

\* the operations that end with return self.query(hogql)
QueryOperations == {"query", "get_events", "export_events"}

\* result.get('results', []) outside any try: a failure of _make_request
\* passes through, and so does the AttributeError of a value that is no dict
ListFinish(r) == IF r.kind = "return" THEN GetResults(r.value) ELSE r

\* the rest of the public operation o once _make_request has ended with r
OpFinish(o, r) ==
    IF o \in QueryOperations THEN QueryFinish(r)
    ELSE IF o \in ListOperations THEN ListFinish(r)
    ELSE IF o = "health_check" THEN HealthCheckFinish(r)
    ELSE r

(* ------------------------------ actions ------------------------------- *)

\* the deployments the operations are run on: a project, the timeout
\* configured for it, the api_url argument (the US default, or the EU host
\* written with a trailing slash) and the project (capture) key, which the
\* US project always has
Deployments ==
    {d \in ProjectIds \X Timeouts
               \X {NoneUrl, Str(<<"https://", "eu.", "posthog.com", "/">>)}
               \X {NoneStr, Str("phc_project")} :
        /\ (d[1] = "12345") <=> (d[2] = DefaultTimeout)
        /\ (d[1] = "12345") <=> d[3].none
        /\ (d[1] = "12345") => ~d[4].none}

\* the constructor calls behind those clients: the personal key, the
\* project and the project key given as arguments, in an environment that
\* sets nothing
ClientInputs ==
    {[args |-> [api_url |-> d[3],
                api_key |-> Str("phx_personal"),
                project_id |-> Str(d[1]),
                project_api_key |-> d[4],
                timeout |-> d[2],
                max_retries |-> n],
      env |-> EmptyEnv] :
        d \in Deployments, n \in RetryCounts}

\* __init__ with an api key and a project id: the configuration
Clients == {NewClient(i.args, i.env) : i \in ClientInputs}

Init ==
    /\ ctor \in ClientInputs
    /\ client = NewClient(ctor.args, ctor.env)
    /\ pc = "idle"
    /\ op = "none"
    /\ arg = NoneArg
    /\ n_calls = 0
    /\ call = NoCall
    /\ attempt = 0
    /\ log = <<>>
    /\ outcome = NoResponse
    /\ mr_result = NoResult
    /\ op_result = NoResult

\* entering _make_request with the arguments cl from the operation o: the
\* for loop starts, or (an empty range) falls through to the implicit
\* return None
EnterMakeRequest(o, cl) ==
    /\ n_calls' = n_calls + 1
    /\ call' = cl
    /\ attempt' = 0
    /\ log' = <<>>
    /\ outcome' = NoResponse
    /\ IF InRange(client, 0)
       THEN /\ pc' = "attempting"
            /\ mr_result' = NoResult
            /\ op_result' = NoResult
       ELSE /\ pc' = "done"
            /\ mr_result' = Return(NoneValue)
            /\ op_result' = OpFinish(o, Return(NoneValue))

\* query(hogql_query) up to its first session.request
Query(q) ==
    /\ pc = "idle"
    /\ op' = "query"
    /\ arg' = q
    /\ IF QueryIsEmpty(q)
       THEN /\ pc' = "done"
            /\ op_result' = Raise("ValidationError", <<"Query cannot be empty">>)
            /\ mr_result' = NoResult
            /\ UNCHANGED n_calls
            /\ call' = NoCall
            /\ attempt' = 0
            /\ log' = <<>>
            /\ outcome' = NoResponse
       ELSE EnterMakeRequest("query", QueryCall(client, q))
    /\ UNCHANGED <<ctor, client>>

\* query's own check of the text it is handed
QueryCheck(q) ==
    IF QueryIsEmpty(q)
    THEN Raise("ValidationError", <<"Query cannot be empty">>)
    ELSE NoResult

\* an operation o with input a up to its first session.request: the failure
\* check raises before any request, or _make_request is entered with cl
Invoke(o, a, check, cl) ==
    /\ op' = o
    /\ arg' = a
    /\ IF check.kind = "raise"
       THEN /\ pc' = "done"
            /\ op_result' = check
            /\ mr_result' = NoResult
            /\ UNCHANGED n_calls
            /\ call' = NoCall
            /\ attempt' = 0
            /\ log' = <<>>
            /\ outcome' = NoResponse
       ELSE EnterMakeRequest(o, cl)
    /\ UNCHANGED <<ctor, client>>

\* an operation o with input a that makes no request and ends with r
Answer(o, a, r) ==
    /\ op' = o
    /\ arg' = a
    /\ pc' = "done"
    /\ op_result' = r
    /\ mr_result' = NoResult
    /\ call' = NoCall
    /\ attempt' = 0
    /\ log' = <<>>
    /\ outcome' = NoResponse
    /\ UNCHANGED <<ctor, client, n_calls>>

ListObjects ==
    /\ pc = "idle"
    /\ Answer("list_objects", NoneArg, ListObjectsResult)

GetFields(object_name) ==
    /\ pc = "idle"
    /\ Answer("get_fields", [object_name |-> object_name],
              GetFieldsResult(object_name))

CaptureEvent(a) ==
    /\ pc = "idle"
    /\ Invoke("capture_event", a, CaptureEventCheck(client),
              CaptureEventCall(client, a))

CaptureBatch(a) ==
    /\ pc = "idle"
    /\ Invoke("capture_batch", a, CaptureBatchCheck(client, a),
              CaptureBatchCall(client, a))

EvaluateFlag(a) ==
    /\ pc = "idle"
    /\ Invoke("evaluate_flag", a, EvaluateFlagCheck(client),
              EvaluateFlagCall(client, a))

GetInsights(a) ==
    /\ pc = "idle"
    /\ Invoke("get_insights", a, NoResult, GetInsightsCall(client, a))

CreateInsight(a) ==
    /\ pc = "idle"
    /\ Invoke("create_insight", a, NoResult, CreateInsightCall(client, a))

\* get_events(...): return self.query(hogql)
GetEvents(a) ==
    /\ pc = "idle"
    /\ Invoke("get_events", a,
              QueryCheck(StrArg(GetEventsHogql(a))),
              QueryCall(client, StrArg(GetEventsHogql(a))))

\* export_events(...): return self.query(hogql)
ExportEvents(a) ==
    /\ pc = "idle"
    /\ Invoke("export_events", a,
              QueryCheck(StrArg(ExportEventsHogql(a))),
              QueryCall(client, StrArg(ExportEventsHogql(a))))

GetPersons(a) ==
    /\ pc = "idle"
    /\ Invoke("get_persons", a, NoResult, GetPersonsCall(client, a))

GetCohorts(a) ==
    /\ pc = "idle"
    /\ Invoke("get_cohorts", a, NoResult, GetCohortsCall(client, a))

CreateCohort(a) ==
    /\ pc = "idle"
    /\ Invoke("create_cohort", a, NoResult, CreateCohortCall(client, a))

GetFeatureFlags ==
    /\ pc = "idle"
    /\ Invoke("get_feature_flags", NoneArg, NoResult, GetFeatureFlagsCall(client))

GetExperiments ==
    /\ pc = "idle"
    /\ Invoke("get_experiments", NoneArg, NoResult, GetExperimentsCall(client))

GetAnnotations(a) ==
    /\ pc = "idle"
    /\ Invoke("get_annotations", a, NoResult, GetAnnotationsCall(client, a))

CreateAnnotation(a) ==
    /\ pc = "idle"
    /\ Invoke("create_annotation", a, NoResult, CreateAnnotationCall(client, a))

\* health_check(): self.get_project_info() inside the try
HealthCheck ==
    /\ pc = "idle"
    /\ Invoke("health_check", NoneArg, NoResult, ProjectInfoCall(client))

\* get_project_info() up to its first session.request
GetProjectInfo ==
    /\ pc = "idle"
    /\ op' = "get_project_info"
    /\ arg' = NoneArg
    /\ EnterMakeRequest("get_project_info", ProjectInfoCall(client))
    /\ UNCHANGED <<ctor, client>>

\* a slip: every retry is taken off the client's max_retries
Attempt_UsesUpRetries(o) ==
    /\ pc = "attempting"
    /\ log' = Append(log, [request |-> Request(client, call), outcome |-> Summary(o)])
    /\ outcome' = o
    /\ LET r == AttemptBody(client, call, attempt, o) IN
       IF r.kind = "continue" /\ InRange(client, attempt + 1)
       THEN /\ attempt' = attempt
            /\ client' = [client EXCEPT !.max_retries = @ - 1]
            /\ UNCHANGED <<pc, mr_result, op_result>>
       ELSE LET end == IF r.kind = "continue" THEN Return(NoneValue) ELSE r IN
            /\ pc' = "done"
            /\ mr_result' = end
            /\ op_result' = OpFinish(op, end)
            /\ UNCHANGED <<attempt, client>>
    /\ UNCHANGED <<ctor, op, arg, n_calls, call>>

\* one pass of the retry loop: session.request does o; the loop goes on to the
\* next pass, or _make_request ends and with it the operation that called it
Attempt(o) ==
    /\ pc = "attempting"
    /\ log' = Append(log, [request |-> Request(client, call), outcome |-> Summary(o)])
    /\ outcome' = o
    /\ LET r == AttemptBody(client, call, attempt, o) IN
       IF r.kind = "continue" /\ InRange(client, attempt + 1)
       THEN /\ attempt' = attempt + 1
            /\ UNCHANGED <<pc, mr_result, op_result>>
       ELSE LET end == IF r.kind = "continue" THEN Return(NoneValue) ELSE r IN
            /\ pc' = "done"
            /\ mr_result' = end
            /\ op_result' = OpFinish(op, end)
            /\ UNCHANGED attempt
    /\ UNCHANGED <<ctor, client, op, arg, n_calls, call>>

\* the caller has its result or its failure; the client is ready for the next
\* operation
ReturnToCaller ==
    /\ pc = "done"
    /\ pc' = "idle"
    /\ op' = "none"
    /\ arg' = NoneArg
    /\ n_calls' = 0
    /\ call' = NoCall
    /\ attempt' = 0
    /\ log' = <<>>
    /\ outcome' = NoResponse
    /\ mr_result' = NoResult
    /\ op_result' = NoResult
    /\ UNCHANGED <<ctor, client>>

Next ==
    \/ \E q \in QueryArgs : Query(q)
    \/ GetProjectInfo
    \/ ListObjects
    \/ \E n \in ObjectNameArgs : GetFields(n)
    \/ \E a \in CaptureEventArgs : CaptureEvent(a)
    \/ \E a \in CaptureBatchArgs : CaptureBatch(a)
    \/ \E a \in EvaluateFlagArgs : EvaluateFlag(a)
    \/ \E a \in GetInsightsArgs : GetInsights(a)
    \/ \E a \in CreateInsightArgs : CreateInsight(a)
    \/ \E a \in GetEventsArgs : GetEvents(a)
    \/ \E a \in ExportEventsArgs : ExportEvents(a)
    \/ \E a \in GetPersonsArgs : GetPersons(a)
    \/ \E a \in GetCohortsArgs : GetCohorts(a)
    \/ \E a \in CreateCohortArgs : CreateCohort(a)
    \/ GetFeatureFlags
    \/ GetExperiments
    \/ \E a \in GetAnnotationsArgs : GetAnnotations(a)
    \/ \E a \in CreateAnnotationArgs : CreateAnnotation(a)
    \/ HealthCheck
    \/ \E o \in Outcomes : Attempt(o)
    \/ ReturnToCaller

Spec == Init /\ [][Next]_vars

(* ---------------------------- construction ---------------------------- *)

\* hosts a base URL is written with: the two clouds, a self-hosted
\* instance, a host that holds posthog.com twice, and nothing at all
UrlHosts ==
    {<<"https://", "us.", "posthog.com">>,
     <<"https://", "eu.", "posthog.com">>,
     <<"https://", "analytics.", "example.org">>,
     <<"https://", "posthog.com", ".mirror.", "posthog.com">>,
     <<>>}

\* the same, followed by up to MaxSlashes slashes
UrlStrings ==
    {h \o [i \in 1 .. n |-> "/"] : h \in UrlHosts, n \in 0 .. MaxSlashes}

\* what a caller passes, and what the environment holds, for a key or an
\* identifier: nothing, the empty string, or a value
KeyArgs(v) == {NoneStr, Str(""), Str(v)}

\* PostHogClient(...) calls and the environments they are made in
CtorInputs ==
    {[args |-> [api_url |-> u,
                api_key |-> k[1],
                project_id |-> p[1],
                project_api_key |-> c[1],
                timeout |-> DefaultTimeout,
                max_retries |-> DefaultMaxRetries],
      env |-> [POSTHOG_API_URL |-> e,
               POSTHOG_PERSONAL_API_KEY |-> k[2],
               POSTHOG_PROJECT_ID |-> p[2],
               POSTHOG_PROJECT_API_KEY |-> c[2]]] :
        u \in {NoneUrl} \cup {Str(s) : s \in UrlStrings},
        e \in {NoneUrl, Str(<<"https://", "eu.", "posthog.com", "/">>)},
        k \in KeyArgs("phx_arg") \X KeyArgs("phx_env"),
        p \in KeyArgs("12345") \X KeyArgs("67890"),
        c \in KeyArgs("phc_arg") \X KeyArgs("phc_env")}

\* before PostHogClient(...) is evaluated
CtorInit ==
    /\ ctor \in CtorInputs
    /\ client = NoClient
    /\ pc = "new"
    /\ op = "none"
    /\ arg = NoneArg
    /\ n_calls = 0
    /\ call = NoCall
    /\ attempt = 0
    /\ log = <<>>
    /\ outcome = NoResponse
    /\ mr_result = NoResult
    /\ op_result = NoResult

\* PostHogClient.__init__: the attributes are computed, then validated; a
\* failed validation leaves no object and the session is never created
Construct ==
    /\ pc = "new"
    /\ op' = "__init__"
    /\ LET v == Validate(ctor.args, ctor.env)
       IN  IF v.kind = "raise"
           THEN /\ client' = NoClient
                /\ pc' = "raised"
                /\ op_result' = v
           ELSE /\ client' = NewClient(ctor.args, ctor.env)
                /\ pc' = "idle"
                /\ op_result' = NoResult
    /\ UNCHANGED <<ctor, arg, n_calls, call, attempt, log, outcome, mr_result>>

CtorNext == Construct

CtorSpec == CtorInit /\ [][CtorNext]_vars

(* ---------------- PostHogAgentExecutor.execute_template --------------- *)

\* the pieces a script template is written with: the two braces, two
\* letters, and a credential placeholder as the registry's templates have it
TemplateChars == {"{", "}", "a", "b", "<api_key_placeholder>"}

\* the template texts: every sequence of up to MaxTemplateLen pieces
TemplateTexts == UNION {[1 .. n -> TemplateChars] : n \in 0 .. MaxTemplateLen}

\* variable names, and the values a caller maps them to: a word, the other
\* name, the other name's placeholder, the empty string, the text of a
\* credential placeholder
VarNames == {<<"a">>, <<"b">>}

VarValues ==
    {<<"x">>, <<"b">>, <<"{", "b", "}">>, <<>>, <<"<api_key_placeholder>">>}

\* a template_vars dict, as its items in iteration order: up to two names,
\* no name twice
TemplateVars ==
    {<<>>}
        \cup {<<[name |-> n, value |-> v]>> : n \in VarNames, v \in VarValues}
        \cup {<<[name |-> p[1], value |-> p[2]], [name |-> p[3], value |-> p[4]]>> :
                  p \in {q \in VarNames \X VarValues \X VarNames \X VarValues :
                             q[1] # q[3]}}

\* the calls: a registry with one template "t", asked for by its name or by
\* a name it does not have
TemplateInputs ==
    [template_name : {"t", "missing"},
     template_vars : TemplateVars,
     templates : {[t |-> s] : s \in TemplateTexts}]

\* the executor's credentials (__init__), no project key among them
Executor ==
    [posthog_api_key |-> "phx_personal",
     posthog_project_id |-> "12345",
     posthog_project_api_key |-> NoneStr,
     posthog_api_url |-> "https://us.posthog.com"]

\* placeholder = f'{{{var_name}}}'
Placeholder(var_name) == <<"{">> \o var_name \o <<"}">>

\* for var_name, var_value in template_vars.items():
\*     script = script.replace(placeholder, var_value)
RECURSIVE Substitute(_, _)
Substitute(script, template_vars) ==
    IF template_vars = <<>>
    THEN script
    ELSE Substitute(ReplaceAll(script, Placeholder(template_vars[1].name),
                               template_vars[1].value),
                    Tail(template_vars))

\* execute_script: the four credential placeholders are filled in, one
\* after the other
FillCredentials(script, ex) ==
    LET s1 == ReplaceAll(script, <<"<api_key_placeholder>">>,
                         <<ex.posthog_api_key>>)
        s2 == ReplaceAll(s1, <<"<project_id_placeholder>">>,
                         <<ex.posthog_project_id>>)
        s3 == ReplaceAll(s2, <<"<project_api_key_placeholder>">>,
                         IF Truthy(ex.posthog_project_api_key)
                         THEN <<ex.posthog_project_api_key.str>>
                         ELSE <<>>)
    IN  ReplaceAll(s3, <<"<api_url_placeholder>">>, <<ex.posthog_api_url>>)

\* result.error of a run: None, or the sandbox's error object, which is
\* truthy and known here by its name and its value
NoError == [none |-> TRUE, name |-> "", value |-> ""]

ExecutionError(name, value) == [none |-> FALSE, name |-> name, value |-> value]

\* str(result.error)
StrOfError(e) == <<e.name, ": ", e.value>>

\* what sandbox.run_code comes back with: a result without an error
\* (nothing printed, output, output that reads like a failure), a result
\* with an error (nothing printed, or output up to the error), or an
\* exception of its own
SandboxResults ==
    [kind : {"result"}, error : {NoError},
     stdout : {"", "out", "Traceback: exit code 1"}]
        \cup [kind : {"result"},
              error : {ExecutionError("NameError", "name 'x' is not defined"),
                       ExecutionError("SystemExit", "1")},
              stdout : {"", "partial"}]
        \cup {[kind |-> "raise", error |-> ExecutionError("TimeoutException", ""),
               stdout |-> ""]}

\* the dict execute_script returns, success taken from what was printed
ExecutionResult_FromOutput(r, description) ==
    DictValue([success |-> r.stdout # "",
               output |-> IF r.error.none THEN r.stdout ELSE "",
               error |-> IF ~r.error.none THEN Str(StrOfError(r.error)) ELSE NoneStr,
               description |-> description])

\* the dict execute_script returns for a result of run_code
ExecutionResult(r, description) ==
    DictValue([success |-> r.error.none,
               output |-> IF r.error.none THEN r.stdout ELSE "",
               error |-> IF ~r.error.none THEN Str(StrOfError(r.error)) ELSE NoneStr,
               description |-> description])

\* the dict execute_template returns for a name the registry does not have
UnknownTemplate(template_name) ==
    DictValue([success |-> FALSE,
               output |-> "",
               error |-> Str(<<"Unknown template: ", template_name>>),
               description |-> <<>>])

\* before execute_template is called
TemplateInit ==
    /\ ctor \in TemplateInputs
    /\ client = NoClient
    /\ pc = "new"
    /\ op = "none"
    /\ arg = NoneArg
    /\ n_calls = 0
    /\ call = NoCall
    /\ attempt = 0
    /\ log = <<>>
    /\ outcome = NoResponse
    /\ mr_result = NoResult
    /\ op_result = NoResult

\* execute_template up to sandbox.run_code: the lookup, the substitution
\* loop, and execute_script's filling of the credentials; call holds the
\* script handed to execute_script and the code handed to the sandbox
ExecuteTemplate ==
    /\ pc = "new"
    /\ op' = "execute_template"
    /\ IF ctor.template_name \notin DOMAIN ctor.templates
       THEN /\ pc' = "done"
            /\ op_result' = Return(UnknownTemplate(ctor.template_name))
            /\ UNCHANGED call
       ELSE LET script == Substitute(ctor.templates[ctor.template_name],
                                     ctor.template_vars)
            IN  /\ pc' = "running"
                /\ call' = [script |-> script,
                            code |-> FillCredentials(script, Executor),
                            description |-> <<"Executing template: ",
                                              ctor.template_name>>]
                /\ UNCHANGED op_result
    /\ UNCHANGED <<ctor, client, arg, n_calls, attempt, log, outcome, mr_result>>

\* sandbox.run_code(code=script, ...) ends with r, and execute_script with
\* its result dict or with the exception of run_code
RunCode(r) ==
    /\ pc = "running"
    /\ pc' = "done"
    /\ outcome' = r
    /\ op_result' = IF r.kind = "raise"
                    THEN Raise(r.error.name, <<>>)
                    ELSE Return(ExecutionResult(r, call.description))
    /\ UNCHANGED <<ctor, client, op, arg, n_calls, call, attempt, log, mr_result>>

TemplateNext ==
    \/ ExecuteTemplate
    \/ \E r \in SandboxResults : RunCode(r)

TemplateSpec == TemplateInit /\ [][TemplateNext]_vars

(* --------- PostHogAgentExecutor: the with statement, batch_execute ---- *)

\* the entries of a scripts list: code, and a description or none
ScriptInfos ==
    {[code |-> <<"print(1)">>, description |-> Str(<<"first">>)],
     [code |-> <<"client = PostHogClient('", "<api_key_placeholder>", "')">>,
      description |-> NoneStr],
     [code |-> <<"raise SystemExit(1)">>, description |-> Str(<<>>)]}

\* the scripts lists handed to batch_execute
ScriptLists == UNION {[1 .. n -> ScriptInfos] : n \in 0 .. MaxScripts}

\* script_info.get('description', '')
DescriptionOf(script_info) ==
    IF script_info.description.none THEN <<>> ELSE script_info.description.str

\* how the sandbox's side of __enter__ goes: Sandbox(...) raises, a
\* files.write raises, pip ends with a non-zero exit code, or all is well
Setups == {"ok", "sandbox_raises", "write_raises", "pip_fails"}

\* a call made on the sandbox (script is the index in the scripts list, 0 for
\* the calls that run no script)
SandboxCall(name, script, code) == [call |-> name, script |-> script, code |-> code]

\* the calls __enter__ makes for a setup, up to the one that fails
EnterCalls(setup) ==
    LET created == <<SandboxCall("Sandbox", 0, <<>>)>>
        written == <<SandboxCall("files.write", 0, <<"__init__.py">>),
                     SandboxCall("files.write", 0, <<"client.py">>),
                     SandboxCall("files.write", 0, <<"exceptions.py">>)>>
        installed == <<SandboxCall("commands.run", 0,
                                   <<"pip install requests python-dotenv">>)>>
    IN  CASE setup = "sandbox_raises" -> <<>>
          [] setup = "write_raises" -> created \o SubSeq(written, 1, 1)
          [] OTHER -> created \o written \o installed

\* how __enter__ ends for a setup
EnterResult(setup) ==
    CASE setup = "sandbox_raises" -> Raise("SandboxException", <<>>)
      [] setup = "write_raises" -> Raise("SandboxException", <<>>)
      [] setup = "pip_fails" ->
             Raise("RuntimeError", <<"Failed to install dependencies: ", "stderr">>)
      [] OTHER -> Return(NoneValue)

\* the executor after __init__: self.sandbox = None
NewExecutor == [constructed |-> TRUE, sandbox |-> FALSE]

\* the loop of batch_execute is left after this result
LoopEnds_NoBreak(result, i, scripts) == i = Len(scripts)

LoopEnds(result, i, scripts) == ~result.fields.success \/ i = Len(scripts)

\* before the with statement
ExecutorInit ==
    /\ ctor \in [scripts : ScriptLists]
    /\ client = NewExecutor
    /\ pc = "new"
    /\ op = "none"
    /\ arg = NoneArg
    /\ n_calls = 0
    /\ call = NoCall
    /\ attempt = 0
    /\ log = <<>>
    /\ outcome = NoResponse
    /\ mr_result = NoResult
    /\ op_result = NoResult

\* with PostHogAgentExecutor(...) as executor: __enter__ runs; when it
\* raises, the with statement ends with its exception and __exit__ is not
\* called
Enter(setup) ==
    /\ pc = "new"
    /\ op' = "__enter__"
    /\ log' = log \o EnterCalls(setup)
    /\ client' = [client EXCEPT !.sandbox = setup # "sandbox_raises"]
    /\ IF EnterResult(setup).kind = "raise"
       THEN /\ pc' = "ended"
            /\ op_result' = EnterResult(setup)
       ELSE /\ pc' = "block"
            /\ UNCHANGED op_result
    /\ UNCHANGED <<ctor, arg, n_calls, call, attempt, outcome, mr_result>>

\* the block calls executor.batch_execute(scripts): results = [], and the
\* loop is entered unless the list is empty
BatchExecute ==
    /\ pc = "block"
    /\ op' = "batch_execute"
    /\ call' = [i |-> 1, results |-> <<>>]
    /\ IF ctor.scripts = <<>>
       THEN /\ pc' = "returned"
            /\ op_result' = Return(ListValue(<<>>))
       ELSE /\ pc' = "batch"
            /\ UNCHANGED op_result
    /\ UNCHANGED <<ctor, client, arg, n_calls, attempt, log, outcome, mr_result>>

\* one turn of the loop: execute_script on the i-th script, whose run of
\* the sandbox ends with r; an exception of run_code leaves batch_execute
\* and the block
ExecuteScript(r) ==
    /\ pc = "batch"
    /\ LET script_info == ctor.scripts[call.i]
           result == ExecutionResult(r, DescriptionOf(script_info))
       IN  /\ log' = Append(log, SandboxCall("run_code", call.i,
                                             FillCredentials(script_info.code,
                                                             Executor)))
           /\ outcome' = r
           /\ IF r.kind = "raise"
              THEN /\ pc' = "raised"
                   /\ op_result' = Raise(r.error.name, <<>>)
                   /\ UNCHANGED call
              ELSE IF LoopEnds(result, call.i, ctor.scripts)
              THEN /\ pc' = "returned"
                   /\ call' = [call EXCEPT !.results = Append(@, result)]
                   /\ op_result' = Return(ListValue(Append(call.results, result)))
              ELSE /\ pc' = "batch"
                   /\ call' = [i |-> call.i + 1,
                               results |-> Append(call.results, result)]
                   /\ UNCHANGED op_result
    /\ UNCHANGED <<ctor, client, op, arg, n_calls, attempt, mr_result>>

\* the block has ended, by its last statement or by an exception: __exit__
Exit ==
    /\ pc \in {"returned", "raised"}
    /\ pc' = "ended"
    /\ log' = IF client.sandbox
              THEN Append(log, SandboxCall("kill", 0, <<>>))
              ELSE log
    /\ UNCHANGED <<ctor, client, op, arg, n_calls, call, attempt, outcome,
                   mr_result, op_result>>

ExecutorNext ==
    \/ \E setup \in Setups : Enter(setup)
    \/ BatchExecute
    \/ \E r \in SandboxResults : ExecuteScript(r)
    \/ Exit

ExecutorSpec == ExecutorInit /\ [][ExecutorNext]_vars

(* --------------------------- script_templates.py ---------------------- *)

\* TEMPLATES, as its items in insertion order: a name, and the text of the
\* module constant registered under it (the text stands for itself: the
\* registry and get_template never look inside it)
TEMPLATES ==
    <<[name |-> "capture_event", template |-> "CAPTURE_EVENT"],
      [name |-> "capture_batch", template |-> "CAPTURE_BATCH_EVENTS"],
      [name |-> "get_recent_events", template |-> "GET_RECENT_EVENTS"],
      [name |-> "hogql_query", template |-> "HOGQL_QUERY"],
      [name |-> "get_insights", template |-> "GET_INSIGHTS"],
      [name |-> "export_events", template |-> "EXPORT_EVENTS_ETL"],
      [name |-> "export_cohort", template |-> "EXPORT_COHORT_DATA"],
      [name |-> "identify_power_users", template |-> "IDENTIFY_POWER_USERS"],
      [name |-> "identify_churn_risk", template |-> "IDENTIFY_CHURN_RISK"],
      [name |-> "analyze_funnel", template |-> "ANALYZE_FUNNEL_DROPOFF"],
      [name |-> "get_experiments", template |-> "GET_EXPERIMENT_RESULTS"],
      [name |-> "evaluate_flags", template |-> "EVALUATE_FEATURE_FLAGS"],
      [name |-> "track_errors", template |-> "TRACK_ERROR_EVENTS"]>>

\* TEMPLATES.keys(), in order
Keys(d) == [i \in DOMAIN d |-> d[i].name]

\* name in TEMPLATES
HasKey(d, name) == \E i \in DOMAIN d : d[i].name = name

\* TEMPLATES[name]
Lookup(d, name) == d[CHOOSE i \in DOMAIN d : d[i].name = name].template

\* the names get_template is asked for: the registered ones, the name of a
\* module constant, a driver object, the empty string
TemplateNameArgs ==
    {TEMPLATES[i].name : i \in DOMAIN TEMPLATES}
        \cup {"CAPTURE_EVENT", "events", "Capture_Event", ""}

\* get_template(name) with a message that leaves the names out
get_template_NoNames(name) ==
    IF ~HasKey(TEMPLATES, name)
    THEN Raise("KeyError", <<"Unknown template '", name, "'.">>)
    ELSE Return(Lookup(TEMPLATES, name))

\* get_template(name)
get_template(name) ==
    IF ~HasKey(TEMPLATES, name)
    THEN Raise("KeyError",
               <<"Unknown template '", name, "'. Available templates: ">>
                   \o Join([i \in DOMAIN TEMPLATES |-> <<TEMPLATES[i].name>>],
                           <<", ">>))
    ELSE Return(Lookup(TEMPLATES, name))

\* list_templates()
list_templates == Return(ListValue(Keys(TEMPLATES)))

(* ------------------ question_to_query (the agent tool) ---------------- *)

\* QUERY_TEMPLATES: each text as its pieces, a run of white space as one
\* space, the replacement field {days} a piece of its own
QUERY_TEMPLATES ==
    "top_events" :>
        <<"SELECT event, count() as total_events, count(DISTINCT",
          " distinct_id) as unique_users FROM events WHERE timestamp >=",
          " now() - INTERVAL ",
          "{days}",
          " DAY GROUP BY event ORDER BY total_events DESC LIMIT 10">>
    @@
    "user_funnel" :>
        <<"SELECT event, count(DISTINCT distinct_id) as users FROM",
          " events WHERE timestamp >= now() - INTERVAL ",
          "{days}",
          " DAY GROUP BY event ORDER BY users DESC">>
    @@
    "conversion_analysis" :>
        <<"SELECT event, count() as occurrences, count(DISTINCT",
          " distinct_id) as unique_users, count() / count(DISTINCT",
          " distinct_id) as avg_per_user FROM events WHERE timestamp >=",
          " now() - INTERVAL ",
          "{days}",
          " DAY AND event IN ('subscription_purchased',",
          " 'movie_buy_complete', 'movie_rent_complete',",
          " 'upgrade_completed') GROUP BY event ORDER BY unique_users",
          " DESC">>
    @@
    "activity_distribution" :>
        <<"SELECT CASE WHEN event_count < 5 THEN 'Low activity (1-4",
          " events)' WHEN event_count < 20 THEN 'Medium activity (5-19",
          " events)' ELSE 'High activity (20+ events)' END as",
          " activity_level, count() as user_count FROM ( SELECT",
          " distinct_id, count() as event_count FROM events WHERE",
          " timestamp >= now() - INTERVAL ",
          "{days}",
          " DAY GROUP BY distinct_id ) GROUP BY activity_level ORDER BY",
          " user_count DESC">>
    @@
    "time_patterns" :>
        <<"SELECT toDayOfWeek(timestamp) as day_of_week,",
          " toHour(timestamp) as hour, count() as events FROM events",
          " WHERE timestamp >= now() - INTERVAL ",
          "{days}",
          " DAY GROUP BY day_of_week, hour ORDER BY events DESC LIMIT",
          " 20">>

\* days_map
days_map == ("7_days" :> 7) @@ ("30_days" :> 30) @@ ("90_days" :> 90)

\* days_map.get(time_period, 30)
DaysOf(time_period) ==
    IF time_period \in DOMAIN days_map THEN days_map[time_period] ELSE 30

\* str.lower() on the letters of the ASCII alphabet; every other character
\* of the questions below is its own lower case
LowerCase ==
    "A" :> "a" @@ "B" :> "b" @@ "C" :> "c" @@ "D" :> "d" @@ "E" :> "e"
    @@ "F" :> "f" @@ "G" :> "g" @@ "H" :> "h" @@ "I" :> "i" @@ "J" :>
    "j" @@ "K" :> "k" @@ "L" :> "l" @@ "M" :> "m" @@ "N" :> "n" @@ "O"
    :> "o" @@ "P" :> "p" @@ "Q" :> "q" @@ "R" :> "r" @@ "S" :> "s" @@
    "T" :> "t" @@ "U" :> "u" @@ "V" :> "v" @@ "W" :> "w" @@ "X" :> "x"
    @@ "Y" :> "y" @@ "Z" :> "z"

Lower(s) ==
    [i \in DOMAIN s |-> IF s[i] \in DOMAIN LowerCase THEN LowerCase[s[i]] ELSE s[i]]

\* word in text, both sequences of characters
Occurs(word, text) ==
    \E i \in 0 .. Len(text) - Len(word) :
        SubSeq(text, i + 1, i + Len(word)) = word

\* the if / elif chain, in its order: the words any() looks for, and the
\* template of the branch
Routes ==
    <<[template |-> "top_events",
       words |-> {<<"t", "o", "p", " ", "e", "v", "e", "n", "t", "s">>,
                  <<"m", "o", "s", "t", " ", "c", "o", "m", "m", "o", "n">>,
                  <<"p", "o", "p", "u", "l", "a", "r", " ", "e", "v", "e", "n", "t", "s">>}],
      [template |-> "user_funnel",
       words |-> {<<"d", "r", "o", "p", " ", "o", "f", "f">>,
                  <<"f", "u", "n", "n", "e", "l">>,
                  <<"u", "s", "e", "r", " ", "j", "o", "u", "r", "n", "e", "y">>}],
      [template |-> "conversion_analysis",
       words |-> {<<"c", "o", "n", "v", "e", "r", "s", "i", "o", "n">>,
                  <<"p", "u", "r", "c", "h", "a", "s", "e">>,
                  <<"b", "u", "y">>,
                  <<"s", "u", "b", "s", "c", "r", "i", "b", "e">>}],
      [template |-> "activity_distribution",
       words |-> {<<"a", "c", "t", "i", "v", "i", "t", "y">>,
                  <<"e", "n", "g", "a", "g", "e", "m", "e", "n", "t">>,
                  <<"a", "c", "t", "i", "v", "e", " ", "u", "s", "e", "r", "s">>}],
      [template |-> "time_patterns",
       words |-> {<<"t", "i", "m", "e">>,
                  <<"w", "h", "e", "n">>,
                  <<"h", "o", "u", "r">>,
                  <<"d", "a", "y">>}]>>

\* the branch taken: the first whose any() holds, and the else branch
RECURSIVE Branch(_, _)
Branch(question_lower, routes) ==
    IF routes = <<>> THEN "top_events"
    ELSE IF \E word \in routes[1].words : Occurs(word, question_lower)
    THEN routes[1].template
    ELSE Branch(question_lower, Tail(routes))

\* template.format(days=days): the replacement field becomes str(days)
Format(template, days) ==
    [i \in DOMAIN template |->
        IF template[i] = "{days}" THEN ToString(days) ELSE template[i]]

\* question_to_query without question.lower()
question_to_query_NoLower(question, time_period) ==
    Format(QUERY_TEMPLATES[Branch(question, Routes)], DaysOf(time_period))

\* question_to_query(question, time_period)
question_to_query(question, time_period) ==
    Format(QUERY_TEMPLATES[Branch(Lower(question), Routes)],
           DaysOf(time_period))

\* the words questions are made of: the keywords in mixed case, halves of
\* the two-word keywords, a word that holds a keyword inside, a word that
\* holds none
QuestionWords ==
    {<<"T", "o", "p">>,
     <<"E", "V", "E", "N", "T", "S">>,
     <<"F", "u", "n", "n", "e", "l">>,
     <<"b", "u", "y">>,
     <<"A", "c", "t", "i", "v", "e">>,
     <<"u", "s", "e", "r", "s">>,
     <<"s", "o", "m", "e", "t", "i", "m", "e", "s">>,
     <<"h", "e", "l", "l", "o">>,
     <<"C", "o", "n", "v", "e", "r", "s", "i", "o", "n">>,
     <<"D", "A", "Y">>}

\* the questions: up to MaxQuestionWords words with single spaces between
Questions ==
    {Join(ws, <<" ">>) :
        ws \in UNION {[1 .. n -> QuestionWords] : n \in 0 .. MaxQuestionWords}}

\* the time periods: the three of days_map, the default among them, and one
\* days_map does not have
TimePeriods == {"7_days", "30_days", "90_days", "1_year"}

\* the calls of the three functions
ToolInputs ==
    [fn : {"get_template"}, name : TemplateNameArgs,
     question : {<<>>}, time_period : {""}]
        \cup [fn : {"list_templates"}, name : {""},
              question : {<<>>}, time_period : {""}]
        \cup [fn : {"question_to_query"}, name : {""},
              question : Questions, time_period : TimePeriods]

\* before the function is called
ToolsInit ==
    /\ ctor \in ToolInputs
    /\ client = NoClient
    /\ pc = "new"
    /\ op = "none"
    /\ arg = NoneArg
    /\ n_calls = 0
    /\ call = NoCall
    /\ attempt = 0
    /\ log = <<>>
    /\ outcome = NoResponse
    /\ mr_result = NoResult
    /\ op_result = NoResult

GetTemplate ==
    /\ pc = "new"
    /\ ctor.fn = "get_template"
    /\ pc' = "done"
    /\ op' = "get_template"
    /\ op_result' = get_template(ctor.name)
    /\ UNCHANGED <<ctor, client, arg, n_calls, call, attempt, log, outcome, mr_result>>

ListTemplates ==
    /\ pc = "new"
    /\ ctor.fn = "list_templates"
    /\ pc' = "done"
    /\ op' = "list_templates"
    /\ op_result' = list_templates
    /\ UNCHANGED <<ctor, client, arg, n_calls, call, attempt, log, outcome, mr_result>>

QuestionToQuery ==
    /\ pc = "new"
    /\ ctor.fn = "question_to_query"
    /\ pc' = "done"
    /\ op' = "question_to_query"
    /\ op_result' = Return(question_to_query(ctor.question, ctor.time_period))
    /\ UNCHANGED <<ctor, client, arg, n_calls, call, attempt, log, outcome, mr_result>>

ToolsNext ==
    \/ GetTemplate
    \/ ListTemplates
    \/ QuestionToQuery

ToolsSpec == ToolsInit /\ [][ToolsNext]_vars

(* ------------------ the agent loops (run_claude_agent, main) ----------- *)

\* a content block of a message: text, a tool_use with its id, or a
\* tool_result with the id it answers and its content
Block(type, id, content) == [type |-> type, id |-> id, content |-> content]

\* the shapes of response.content: up to MaxBlocks blocks, text or tool_use
ContentShapes == UNION {[1 .. n -> {"text", "tool_use"}] : n \in 0 .. MaxBlocks}

\* how many of the first k blocks of a shape are tool_use blocks
RECURSIVE ToolUsesBefore(_, _)
ToolUsesBefore(shape, k) ==
    IF k = 0 THEN 0
    ELSE ToolUsesBefore(shape, k - 1) + (IF shape[k] = "tool_use" THEN 1 ELSE 0)

\* the responses of anthropic.messages.create: stop reason tool_use with at
\* least one tool_use block, or end_turn with none; the tool_use ids are
\* new ones, counted on from last_id
Responses(last_id) ==
    {[stop_reason |-> IF ToolUsesBefore(shape, Len(shape)) > 0
                      THEN "tool_use" ELSE "end_turn",
      content |-> [k \in DOMAIN shape |->
                      IF shape[k] = "tool_use"
                      THEN Block("tool_use", last_id + ToolUsesBefore(shape, k),
                                 "question")
                      ELSE Block("text", 0, "words")]] :
        shape \in ContentShapes}

IsToolUse(block) == block.type = "tool_use"

\* the tool_use blocks the loop takes from response.content:
\* run_claude_agent the first (next(...)), main all of them
ToolUsesTaken(loop, content) ==
    IF loop = "run_claude_agent"
    THEN SubSeq(SelectSeq(content, IsToolUse), 1, 1)
    ELSE SelectSeq(content, IsToolUse)

\* what executing a tool gives back: rows, or the text of a failure
ToolOutputs == {"Query Results (2 rows)", "Error querying PostHog"}

\* the tool_result blocks for the tool_use blocks taken, given their outputs
ToolResults(tool_uses, outputs) ==
    [k \in DOMAIN tool_uses |->
        Block("tool_result", tool_uses[k].id, outputs[k])]

Message(role, content) == [role |-> role, content |-> content]

\* before the question is put: the two loops
AgentInit ==
    /\ ctor \in [loop : {"run_claude_agent", "main"}]
    /\ client = NoClient
    /\ pc = "new"
    /\ op = "none"
    /\ arg = NoneArg
    /\ n_calls = 0
    /\ call = [executed |-> <<>>]
    /\ attempt = 0
    /\ log = <<>>
    /\ outcome = NoResponse
    /\ mr_result = NoResult
    /\ op_result = NoResult

\* messages = [the user's question]; response = anthropic.messages.create(...)
FirstRequest ==
    /\ pc = "new"
    /\ pc' = "responded"
    /\ op' = ctor.loop
    /\ log' = <<Message("user", <<Block("text", 0, "question")>>)>>
    /\ attempt' = 1
    /\ \E response \in Responses(n_calls) :
           /\ outcome' = response
           /\ n_calls' = n_calls + Len(SelectSeq(response.content, IsToolUse))
    /\ UNCHANGED <<ctor, client, arg, call, mr_result, op_result>>

\* one turn of while response.stop_reason == "tool_use": the tools are
\* executed, each with its output, the assistant message and the tool
\* results are appended, and the next response is asked for
ToolTurn ==
    /\ pc = "responded"
    /\ outcome.stop_reason = "tool_use"
    /\ attempt < MaxTurns
    /\ LET tool_uses == ToolUsesTaken(ctor.loop, outcome.content)
       IN  /\ call' = [executed |-> call.executed
                                        \o [k \in DOMAIN tool_uses |-> tool_uses[k].id]]
           /\ \E outputs \in [DOMAIN tool_uses -> ToolOutputs] :
                  log' = log \o <<Message("assistant", outcome.content),
                                 Message("user", ToolResults(tool_uses, outputs))>>
    /\ attempt' = attempt + 1
    /\ \E response \in Responses(n_calls) :
           /\ outcome' = response
           /\ n_calls' = n_calls + Len(SelectSeq(response.content, IsToolUse))
    /\ UNCHANGED <<ctor, client, pc, op, arg, mr_result, op_result>>

\* the loop is left: the final answer is the first text of the response
FinalAnswer ==
    /\ pc = "responded"
    /\ outcome.stop_reason # "tool_use"
    /\ pc' = "done"
    /\ op_result' = Return(IF \E k \in DOMAIN outcome.content :
                                  outcome.content[k].type = "text"
                           THEN "words"
                           ELSE IF ctor.loop = "main" THEN "" ELSE "No response")
    /\ UNCHANGED <<ctor, client, op, arg, n_calls, call, attempt, log, outcome,
                   mr_result>>

AgentNext ==
    \/ FirstRequest
    \/ ToolTurn
    \/ FinalAnswer

AgentSpec == AgentInit /\ [][AgentNext]_vars

(* ------------------------- what the claims speak of ------------------- *)

\* an attempt that ended in a connection failure (requests.ConnectionError)
IsConnectionFailure(s) == s.type = "exception" /\ "ConnectionError" \in s.bases

\* an attempt that ended in a timeout (requests.Timeout)
IsTimeout(s) == s.type = "exception" /\ "Timeout" \in s.bases

\* an attempt that received a response with a status in lo .. hi
IsStatus(s, lo, hi) ==
    s.type = "response" /\ lo <= s.status_code /\ s.status_code <= hi

\* the attempts made so far, but for the latest
Earlier == 1 .. (Len(log) - 1)

\* _make_request was called and has ended
Ended == pc = "done" /\ mr_result.kind # "none"

\* the string x is part of the message m
Carries(m, x) == \E i \in DOMAIN m : m[i] = x

\* the pieces xs stand in the message m, one after the other
Contains(m, xs) ==
    \E i \in 0 .. Len(m) - Len(xs) : SubSeq(m, i + 1, i + Len(xs)) = xs

(* ------------------------------- C1 ----------------------------------- *)

\* C1: with max_retries >= 1, while fewer than max_retries attempts were made
\* and each of them ended in a connection failure or a timeout, the call has
\* neither returned nor raised; and when the attempt after them receives a
\* 2xx response the call returns that response's value (its parsed JSON, or
\* the {success, status_code} indicator) and raises nothing.
C1_RetryThenSuccess ==
    (client.max_retries >= 1 /\ n_calls = 1) =>
        /\ ( /\ Len(log) < client.max_retries
             /\ \A i \in DOMAIN log :
                    IsConnectionFailure(log[i].outcome) \/ IsTimeout(log[i].outcome) )
           => (pc = "attempting" /\ mr_result = NoResult /\ op_result = NoResult)
        /\ ( /\ Len(log) >= 1
             /\ \A i \in Earlier :
                    IsConnectionFailure(log[i].outcome) \/ IsTimeout(log[i].outcome)
             /\ IsStatus(log[Len(log)].outcome, 200, 299) )
           => /\ pc = "done"
              /\ mr_result.kind = "return"
              /\ mr_result.value =
                    IF outcome.body.json.type = "invalid"
                    THEN DictValue([success |-> TRUE,
                                    status_code |-> outcome.status_code])
                    ELSE outcome.body.json

\* the spec's case: two connection failures, then a success, max_retries = 3
C1_Witness ==
    /\ pc = "done"
    /\ client.max_retries = 3
    /\ Len(log) = 3
    /\ log[1].outcome = [type |-> "exception", bases |-> {"ConnectionError"}]
    /\ log[2].outcome = [type |-> "exception", bases |-> {"ConnectionError"}]
    /\ IsStatus(log[3].outcome, 200, 200)
    /\ mr_result.kind = "return"
    /\ mr_result.value = DictValue([results |-> <<"r1", "r2">>])

(* ------------------------------- C2 ----------------------------------- *)

\* C2: when every attempt of a _make_request call ended in a connection
\* failure, the call raises ConnectionError after exactly max_retries
\* attempts, and while fewer attempts were made nothing has been raised.
C2_PermanentConnectionFailure ==
    (n_calls = 1 /\ \A i \in DOMAIN log : IsConnectionFailure(log[i].outcome)) =>
        /\ Len(log) < client.max_retries => (pc = "attempting" /\ mr_result = NoResult)
        /\ Ended =>
            /\ mr_result.kind = "raise"
            /\ mr_result.exc = "ConnectionError"
            /\ Len(log) = client.max_retries

\* the part of C2 that holds: once an attempt was made, a call all of whose
\* attempts ended in a connection failure ends with ConnectionError after
\* exactly max_retries attempts
C2_HoldsOnceAttempted ==
    (n_calls = 1 /\ Len(log) >= 1
        /\ \A i \in DOMAIN log : IsConnectionFailure(log[i].outcome)) =>
        /\ Len(log) < client.max_retries => (pc = "attempting" /\ mr_result = NoResult)
        /\ Ended =>
            /\ mr_result.kind = "raise"
            /\ mr_result.exc = "ConnectionError"
            /\ Len(log) = client.max_retries

(* ------------------------------- C3 ----------------------------------- *)

\* C3: a response with a status in 400..499 is the last attempt of its call,
\* whatever attempts remain: the call has ended there with a failure.
C3_ClientErrorNotRetried ==
    \A i \in DOMAIN log :
        IsStatus(log[i].outcome, 400, 499) =>
            /\ i = Len(log)
            /\ pc = "done"
            /\ mr_result.kind = "raise"

\* a 400 on the first of three permitted attempts ends the call
C3_Witness ==
    /\ pc = "done"
    /\ client.max_retries = 3
    /\ Len(log) = 1
    /\ IsStatus(log[1].outcome, 400, 400)
    /\ mr_result.kind = "raise"

(* ------------------------------- C4 ----------------------------------- *)

\* C4 as claimed: every attempt that was followed by another one ended in a
\* connection failure or a timeout, and an attempt that received a response
\* of any status is the last of its call.
C4_RetryOnlyAfterNetworkFailure ==
    /\ \A i \in DOMAIN log :
        (i < Len(log) \/ pc = "attempting") =>
            (IsConnectionFailure(log[i].outcome) \/ IsTimeout(log[i].outcome))
    /\ \A i \in DOMAIN log :
        log[i].outcome.type = "response" => (i = Len(log) /\ pc = "done")

\* C4 amended: every attempt that was followed by another one ended in a
\* connection failure, a timeout or a response with a status in 500..599; an
\* attempt that received a response of any other status, or whose exception
\* is neither of the two, is the last of its call.
C4_RetryOnlyAfterNetworkFailureOr5xx ==
    /\ \A i \in DOMAIN log :
        (i < Len(log) \/ pc = "attempting") =>
            \/ IsConnectionFailure(log[i].outcome)
            \/ IsTimeout(log[i].outcome)
            \/ IsStatus(log[i].outcome, 500, 599)
    /\ \A i \in DOMAIN log :
        ( \/ (log[i].outcome.type = "response" /\ ~IsStatus(log[i].outcome, 500, 599))
          \/ (log[i].outcome.type = "exception"
                /\ ~IsConnectionFailure(log[i].outcome)
                /\ ~IsTimeout(log[i].outcome)) )
        => (i = Len(log) /\ pc = "done" /\ mr_result.kind # "none")

\* a 500 answer was followed by a further attempt
C4_Witness ==
    /\ Len(log) = 2
    /\ IsStatus(log[1].outcome, 500, 500)
    /\ IsStatus(log[2].outcome, 200, 200)
    /\ pc = "done"
    /\ mr_result.kind = "return"

(* ------------------------------- C5 ----------------------------------- *)

\* C5: a response with status 401 or 403 ends the call with
\* AuthenticationError, 404 with ObjectNotFoundError and 429 with
\* RateLimitError, on whichever attempt it arrives; and a call that ended
\* with one of these three kinds ended on a response with such a status.
C5_StatusClassification ==
    /\ \A i \in DOMAIN log :
        LET s == log[i].outcome IN
        (s.type = "response" /\ s.status_code \in {401, 403, 404, 429}) =>
            /\ i = Len(log)
            /\ Ended
            /\ mr_result.kind = "raise"
            /\ mr_result.exc =
                  IF s.status_code \in {401, 403} THEN "AuthenticationError"
                  ELSE IF s.status_code = 404 THEN "ObjectNotFoundError"
                  ELSE "RateLimitError"
    /\ (Ended /\ mr_result.kind = "raise") =>
        /\ mr_result.exc = "AuthenticationError" =>
              (outcome.type = "response" /\ outcome.status_code \in {401, 403})
        /\ mr_result.exc = "ObjectNotFoundError" =>
              (outcome.type = "response" /\ outcome.status_code = 404)
        /\ mr_result.exc = "RateLimitError" =>
              (outcome.type = "response" /\ outcome.status_code = 429)

\* a 403 on the second attempt, after a retried failure
C5_Witness ==
    /\ Ended
    /\ Len(log) = 2
    /\ IsStatus(log[2].outcome, 403, 403)
    /\ mr_result.kind = "raise"
    /\ mr_result.exc = "AuthenticationError"

(* ------------------------------- C6 ----------------------------------- *)

\* the latest response is a failure of none of the four classified statuses
OtherFailedResponse ==
    /\ Ended
    /\ mr_result.kind = "raise"
    /\ outcome.type = "response"
    /\ ~IsStatus(outcome, 200, 299)
    /\ outcome.status_code \notin {401, 403, 404, 429}

\* C6 as claimed: a call that failed on a non-2xx response other than 401,
\* 403, 404 and 429 raised the base PostHogError with a message that carries
\* the response body text, for 4xx and 5xx alike.
C6_GenericFailureCarriesBody ==
    OtherFailedResponse =>
        /\ mr_result.exc = "PostHogError"
        /\ Carries(mr_result.msg, outcome.body.text)

\* C6 amended: such a call raised the base PostHogError; on a 4xx response the
\* message is "API error: " and the response body text; on a 5xx response
\* (raised on the last permitted attempt only) the message is "HTTP error: "
\* and the HTTPError's own text, which names the status and the URL and not
\* the body.
C6_GenericFailureMessage ==
    OtherFailedResponse =>
        /\ mr_result.exc = "PostHogError"
        /\ IsStatus(outcome, 400, 599)
        /\ IsStatus(outcome, 400, 499) =>
              mr_result.msg = <<"API error: ", outcome.body.text>>
        /\ IsStatus(outcome, 500, 599) =>
              /\ Len(log) = client.max_retries
              /\ mr_result.msg[1] = "HTTP error: "
              /\ Carries(mr_result.msg, ToString(outcome.status_code))
              /\ Contains(mr_result.msg, Url(client, call))
              /\ ~Carries(mr_result.msg, outcome.body.text)

\* a 500 that was retried, then a 400 whose body the failure carries
C6_Witness ==
    /\ OtherFailedResponse
    /\ Len(log) = 2
    /\ IsStatus(log[1].outcome, 500, 500)
    /\ outcome.status_code = 400
    /\ outcome.body.text = "{detail: d}"
    /\ mr_result.msg = <<"API error: ", "{detail: d}">>

(* ------------------------------- C7 ----------------------------------- *)

\* every attempt was made with the configured timeout
SameTimeoutEveryAttempt ==
    \A i \in DOMAIN log : log[i].request.timeout = client.timeout

\* the latest attempt is the last one max_retries permits
LastPermittedAttempt == Len(log) >= 1 /\ Len(log) = client.max_retries

\* C7 as claimed: a call whose last permitted attempt ended in a timeout
\* raised the base PostHogError with a message stating the configured
\* timeout, and every attempt was given that same timeout.
C7_TimeoutFailure ==
    /\ SameTimeoutEveryAttempt
    /\ (Ended /\ LastPermittedAttempt /\ IsTimeout(log[Len(log)].outcome)) =>
        /\ mr_result.kind = "raise"
        /\ mr_result.exc = "PostHogError"
        /\ Carries(mr_result.msg, ToString(client.timeout))

\* C7 amended: a call whose last permitted attempt ended in a timeout that is
\* not also a connection failure (a read timeout) raised the base
\* PostHogError with the message "Request timeout after <timeout> seconds";
\* a connect timeout, which is both a requests.ConnectionError and a
\* requests.Timeout, is handled as a connection failure and raised
\* ConnectionError; every attempt was given the configured timeout.
C7_ReadTimeoutFailure ==
    /\ SameTimeoutEveryAttempt
    /\ (Ended /\ LastPermittedAttempt /\ IsTimeout(log[Len(log)].outcome)) =>
        /\ mr_result.kind = "raise"
        /\ IF IsConnectionFailure(log[Len(log)].outcome)
           THEN mr_result.exc = "ConnectionError"
           ELSE /\ mr_result.exc = "PostHogError"
                /\ mr_result.msg =
                      <<"Request timeout after ", ToString(client.timeout), " seconds">>

\* three attempts, the last a read timeout
C7_Witness ==
    /\ Ended
    /\ client.max_retries = 3
    /\ Len(log) = 3
    /\ outcome.type = "exception"
    /\ outcome.exception.bases = {"Timeout"}
    /\ mr_result.kind = "raise"
    /\ mr_result.exc = "PostHogError"
    /\ client.timeout = DefaultTimeout
    /\ Carries(mr_result.msg, "30")

(* ------------------------------- C8 ----------------------------------- *)

\* the argument is None, empty or made of whitespace only
Blank(q) == q.none \/ \A i \in DOMAIN q.str : q.str[i] \in Whitespace

\* C8: query(s) with s None, empty or all whitespace raises ValidationError
\* and never reaches the request executor: no _make_request call, no HTTP
\* attempt.
C8_EmptyQueryRejected ==
    (op = "query" /\ Blank(arg)) =>
        /\ pc = "done"
        /\ op_result.kind = "raise"
        /\ op_result.exc = "ValidationError"
        /\ n_calls = 0
        /\ log = <<>>
        /\ mr_result = NoResult

\* query("  ")
C8_Witness ==
    /\ op = "query"
    /\ arg = StrArg(<<" ", " ">>)
    /\ op_result.kind = "raise"
    /\ op_result.exc = "ValidationError"
    /\ n_calls = 0

(* ------------------------------- C9 ----------------------------------- *)

\* C9: query(s) with s not blank calls the request executor exactly once,
\* for a POST of {query: {kind: HogQLQuery, query: s}} to
\* /api/projects/{project_id}/query/ on the main host (every HTTP attempt of
\* that call is this request), and when the executor returns a parsed
\* response (a dict) query returns its results array, or the empty list when
\* it has no results key.
C9_QueryPostsOnce ==
    (op = "query" /\ ~Blank(arg)) =>
        /\ n_calls = 1
        /\ call.method = "POST"
        /\ call.use_capture_url = FALSE
        /\ call.endpoint = <<"/api/projects/", client.project_id, "/query/">>
        /\ call.kwargs = [json |-> [query |-> [kind |-> "HogQLQuery",
                                               query |-> arg.str]]]
        /\ \A i \in DOMAIN log :
              /\ log[i].request.method = "POST"
              /\ log[i].request.url =
                    client.api_url \o <<"/api/projects/", client.project_id, "/query/">>
              /\ log[i].request.kwargs = call.kwargs
        /\ (Ended /\ mr_result.kind = "return" /\ mr_result.value.type = "dict") =>
              /\ op_result.kind = "return"
              /\ op_result.value =
                    ListValue(IF "results" \in DOMAIN mr_result.value.fields
                              THEN mr_result.value.fields.results
                              ELSE <<>>)

\* one POST answered at once with a results array, which query returns
C9_Witness ==
    /\ op = "query"
    /\ arg = StrArg(<<"q", " ">>)
    /\ Len(log) = 1
    /\ IsStatus(log[1].outcome, 200, 200)
    /\ op_result = Return(ListValue(<<"r1", "r2">>))

(* ------------------------------- C10 ---------------------------------- *)

\* C10: every failure query() surfaces is of the taxonomy; a failure of the
\* taxonomy raised by the request executor is surfaced as it is, and any
\* other exception (one the executor let through, or the AttributeError of
\* a returned value that is no dict) is surfaced as QueryError whose message
\* ends with the original message.
C10_QueryFailuresInTaxonomy ==
    (op = "query" /\ pc = "done") =>
        /\ op_result.kind = "raise" => op_result.exc \in Taxonomy
        /\ (mr_result.kind = "raise" /\ mr_result.exc \in Taxonomy) =>
              op_result = mr_result
        /\ (mr_result.kind = "raise" /\ mr_result.exc \notin Taxonomy) =>
              /\ op_result.kind = "raise"
              /\ op_result.exc = "QueryError"
              /\ op_result.msg = <<"Query execution failed: ">> \o mr_result.msg
        /\ (mr_result.kind = "return" /\ mr_result.value.type # "dict") =>
              /\ op_result.kind = "raise"
              /\ op_result.exc = "QueryError"
              /\ op_result.msg[1] = "Query execution failed: "
              /\ Carries(op_result.msg, "' object has no attribute 'get'")

\* an exception the executor does not classify, wrapped by query
C10_Witness ==
    /\ op = "query"
    /\ pc = "done"
    /\ mr_result.kind = "raise"
    /\ mr_result.exc = "requests.RequestException"
    /\ op_result = Raise("QueryError",
                         <<"Query execution failed: ", "too many redirects">>)

(* ------------------------------- C11 ---------------------------------- *)

\* the 8 object types, in the order list_objects gives them
EightNames ==
    <<"events", "insights", "persons", "cohorts", "feature_flags",
      "sessions", "annotations", "experiments">>

\* a mapping that is not empty and whose every value has a type and a
\* description key
IsSchema(v) ==
    /\ v.type = "dict"
    /\ DOMAIN v.fields # {}
    /\ \A f \in DOMAIN v.fields :
           {"type", "description"} \subseteq DOMAIN v.fields[f]

\* C11: get_fields(name) returns a non-empty mapping in which every value
\* has both a type and a description key exactly when name is one of the 8
\* names list_objects() returns; for any other name it raises
\* ObjectNotFoundError with a message that lists all 8 names; and
\* list_objects() returns the same 8 names in the same order whatever was
\* called before.
C11_FieldsForListedObjects ==
    /\ op = "list_objects" => op_result = Return(ListValue(EightNames))
    /\ op = "get_fields" =>
           LET listed == \E i \in DOMAIN ListObjectsResult.value.items :
                             ListObjectsResult.value.items[i] = arg.object_name
           IN  /\ Len(ListObjectsResult.value.items) = 8
               /\ listed <=> op_result.kind = "return"
               /\ op_result.kind = "return" => IsSchema(op_result.value)
               /\ ~listed =>
                      /\ op_result.kind = "raise"
                      /\ op_result.exc = "ObjectNotFoundError"
                      /\ \A i \in DOMAIN EightNames :
                             Carries(op_result.msg, EightNames[i])
                      /\ Carries(op_result.msg, arg.object_name)

\* get_fields of a name in another case was refused with the list of names
C11_Witness ==
    /\ op = "get_fields"
    /\ arg.object_name = "Events"
    /\ op_result.kind = "raise"
    /\ op_result.exc = "ObjectNotFoundError"
    /\ Carries(op_result.msg, "experiments")

(* ------------------------------- C12 ---------------------------------- *)

\* __init__ has run: it returned (pc = "idle") or raised (pc = "raised")
Constructed == op = "__init__" /\ pc = "idle"

ConstructionFailed == op = "__init__" /\ pc = "raised"

\* the value is given neither as an argument nor in the environment
Missing(argument, variable) == argument.none /\ variable.none

\* C12: constructing the client with no personal API key, neither as a
\* parameter nor in POSTHOG_PERSONAL_API_KEY, raises AuthenticationError;
\* with a personal key but no project identifier, neither as a parameter nor
\* in POSTHOG_PROJECT_ID, it raises the base PostHogError; in both cases
\* there is no client object and no HTTP session.
C12_ConstructionFailures ==
    op = "__init__" =>
        LET a == ctor.args
            e == ctor.env
            noKey == Missing(a.api_key, e.POSTHOG_PERSONAL_API_KEY)
            hasKey == Truthy(a.api_key) \/ Truthy(e.POSTHOG_PERSONAL_API_KEY)
            noProject == Missing(a.project_id, e.POSTHOG_PROJECT_ID)
        IN  /\ noKey =>
                ConstructionFailed /\ op_result.exc = "AuthenticationError"
            /\ hasKey /\ noProject =>
                ConstructionFailed /\ op_result.exc = "PostHogError"
            /\ ConstructionFailed =>
                /\ op_result.kind = "raise"
                /\ client = NoClient
                /\ "session" \notin DOMAIN client

\* a personal key from the environment and no project identifier anywhere:
\* the base failure was raised
C12_Witness ==
    /\ ConstructionFailed
    /\ ctor.args.api_key.none
    /\ Truthy(ctor.env.POSTHOG_PERSONAL_API_KEY)
    /\ Missing(ctor.args.project_id, ctor.env.POSTHOG_PROJECT_ID)
    /\ op_result.exc = "PostHogError"

(* ------------------------------- C13 ---------------------------------- *)

\* what the environment supplies for the base URL: the variable, or the
\* fixed US default
EnvApiUrl(e) ==
    IF e.POSTHOG_API_URL.none THEN DefaultApiUrl.str ELSE e.POSTHOG_API_URL.str

\* u is s without its trailing slashes
WithoutTrailingSlashes(u, s) ==
    /\ Len(u) <= Len(s)
    /\ u \o [i \in 1 .. Len(s) - Len(u) |-> "/"] = s
    /\ u = <<>> \/ u[Len(u)] # "/"

\* C13 as stated: for the base URL, the personal key, the project identifier
\* and the project key, an argument that is given is the value the client
\* uses, and the environment value (for the URL, else the US default) is
\* used only when no argument is given.
C13_ArgumentAlwaysUsed ==
    Constructed =>
        LET a == ctor.args
            e == ctor.env
        IN  /\ ~a.api_url.none => client.api_url = a.api_url.str
            /\ ~a.api_key.none => client.api_key = a.api_key.str
            /\ ~a.project_id.none => client.project_id = a.project_id.str
            /\ ~a.project_api_key.none =>
                   client.project_api_key = a.project_api_key

\* C13: a non-empty argument is the value the client uses, whatever the
\* environment holds (a base URL is kept without its trailing slashes); the
\* environment value (for the URL, else the US default) is used when the
\* argument is missing or is the empty string.
C13_NonEmptyArgumentUsed ==
    Constructed =>
        LET a == ctor.args
            e == ctor.env
        IN  /\ Truthy(a.api_url) =>
                WithoutTrailingSlashes(client.api_url, a.api_url.str)
            /\ ~Truthy(a.api_url) =>
                WithoutTrailingSlashes(client.api_url, EnvApiUrl(e))
            /\ Truthy(a.api_key) => client.api_key = a.api_key.str
            /\ ~Truthy(a.api_key) =>
                client.api_key = e.POSTHOG_PERSONAL_API_KEY.str
            /\ Truthy(a.project_id) => client.project_id = a.project_id.str
            /\ ~Truthy(a.project_id) =>
                client.project_id = e.POSTHOG_PROJECT_ID.str
            /\ Truthy(a.project_api_key) =>
                client.project_api_key = a.project_api_key
            /\ ~Truthy(a.project_api_key) =>
                client.project_api_key = e.POSTHOG_PROJECT_API_KEY

\* every one of the four is given both ways, with different values, the URL
\* argument with a trailing slash; the client holds the arguments
C13_Witness ==
    /\ Constructed
    /\ ctor.args.api_url = Str(<<"https://", "us.", "posthog.com", "/">>)
    /\ ~ctor.env.POSTHOG_API_URL.none
    /\ ctor.args.api_key = Str("phx_arg")
    /\ ctor.env.POSTHOG_PERSONAL_API_KEY = Str("phx_env")
    /\ ctor.args.project_id = Str("12345")
    /\ ctor.env.POSTHOG_PROJECT_ID = Str("67890")
    /\ ctor.args.project_api_key = Str("phc_arg")
    /\ ctor.env.POSTHOG_PROJECT_API_KEY = Str("phc_env")
    /\ client.api_url = <<"https://", "us.", "posthog.com">>
    /\ client.api_key = "phx_arg"
    /\ client.project_id = "12345"
    /\ client.project_api_key = Str("phc_arg")

(* ------------------------------- C14 ---------------------------------- *)

\* s without the i. segment in front of posthog.com, one segment for each
\* posthog.com
RECURSIVE WithoutSegment(_)
WithoutSegment(s) ==
    IF s = <<>> THEN s
    ELSE IF Len(s) >= 2 /\ s[1] = "i." /\ s[2] = "posthog.com"
    THEN <<"posthog.com">> \o WithoutSegment(SubSeq(s, 3, Len(s)))
    ELSE <<Head(s)>> \o WithoutSegment(Tail(s))

\* C14: the capture URL is the base URL with an i. segment inserted before
\* posthog.com: https://us.posthog.com gives https://us.i.posthog.com and
\* https://eu.posthog.com gives https://eu.i.posthog.com; it is computed at
\* construction, from the base URL the client keeps, which stays as it was.
C14_CaptureUrlDerivation ==
    Constructed =>
        /\ client.api_url = <<"https://", "us.", "posthog.com">> =>
               client.capture_url = <<"https://", "us.", "i.", "posthog.com">>
        /\ client.api_url = <<"https://", "eu.", "posthog.com">> =>
               client.capture_url = <<"https://", "eu.", "i.", "posthog.com">>
        /\ \A i \in DOMAIN client.capture_url :
               client.capture_url[i] = "posthog.com" =>
                   i > 1 /\ client.capture_url[i - 1] = "i."
        /\ WithoutSegment(client.capture_url) = client.api_url
        /\ client.api_url = ApiUrlOf(ctor.args, ctor.env)

\* the EU host given by argument: the client's capture URL is the EU ingest
\* host
C14_Witness ==
    /\ Constructed
    /\ ctor.args.api_url = Str(<<"https://", "eu.", "posthog.com">>)
    /\ client.api_url = <<"https://", "eu.", "posthog.com">>
    /\ client.capture_url = <<"https://", "eu.", "i.", "posthog.com">>

(* ------------------------------- C15 ---------------------------------- *)

\* the operations the claim sends to the capture host
CaptureOperations == {"capture_event", "capture_batch", "evaluate_flag"}

\* the URL starts with the host
AtHost(url, host) ==
    Len(url) >= Len(host) /\ SubSeq(url, 1, Len(host)) = host

\* C15: every request made by capture_event, capture_batch and
\* evaluate_flag goes to the capture host, every request made by any other
\* operation goes to the main API host, and no operation sends to both.
C15_HostRouting ==
    \A i \in DOMAIN log :
        LET url == log[i].request.url
        IN  IF op \in CaptureOperations
            THEN /\ url = client.capture_url \o call.endpoint
                 /\ ~AtHost(url, client.api_url)
            ELSE /\ url = client.api_url \o call.endpoint
                 /\ ~AtHost(url, client.capture_url)

\* evaluate_flag on the EU client, retried once: both requests went to the
\* EU capture host
C15_Witness ==
    /\ op = "evaluate_flag"
    /\ Len(log) = 2
    /\ \A i \in DOMAIN log :
           log[i].request.url =
               <<"https://", "eu.", "i.", "posthog.com", "/flags/">>

(* ------------------------------- C16 ---------------------------------- *)

\* C16: capture_event and evaluate_flag on a client with no project key
\* raise AuthenticationError without making any request; with a project key,
\* capture_event calls the request executor exactly once, for a POST to
\* /i/v0/e/ on the capture host (every HTTP attempt of that call is this
\* request) whose payload carries the project key in api_key, the event, the
\* distinct_id and the properties, an empty mapping when they are omitted.
C16_CaptureNeedsProjectKey ==
    /\ (op \in {"capture_event", "evaluate_flag"}
            /\ ~Truthy(client.project_api_key)) =>
           /\ pc = "done"
           /\ op_result.kind = "raise"
           /\ op_result.exc = "AuthenticationError"
           /\ n_calls = 0
           /\ log = <<>>
    /\ (op = "capture_event" /\ Truthy(client.project_api_key)) =>
           /\ n_calls = 1
           /\ call.method = "POST"
           /\ call.endpoint = <<"/i/v0/e/">>
           /\ call.kwargs.json.api_key = client.project_api_key.str
           /\ call.kwargs.json.event = arg.event
           /\ call.kwargs.json.distinct_id = arg.distinct_id
           /\ call.kwargs.json.properties =
                  (IF arg.properties.none THEN {} ELSE arg.properties.dict)
           /\ \A i \in DOMAIN log :
                  /\ log[i].request.method = "POST"
                  /\ log[i].request.url = client.capture_url \o <<"/i/v0/e/">>
                  /\ log[i].request.kwargs = call.kwargs

\* capture_event with the properties left out, answered at once: the one
\* POST carried an empty properties mapping and the project key
C16_Witness ==
    /\ op = "capture_event"
    /\ arg.properties.none
    /\ Len(log) = 1
    /\ IsStatus(log[1].outcome, 200, 200)
    /\ log[1].request.kwargs.json.properties = {}
    /\ log[1].request.kwargs.json.api_key = "phc_project"
    /\ pc = "done"
    /\ op_result.kind = "return"

(* ------------------------------- C17 ---------------------------------- *)

\* what the claim says of capture_batch on the list it is given
BatchContract ==
    IF arg.events = <<>>
    THEN /\ pc = "done"
         /\ op_result.kind = "raise"
         /\ op_result.exc = "ValidationError"
         /\ n_calls = 0
         /\ log = <<>>
    ELSE /\ n_calls = 1
         /\ call.method = "POST"
         /\ call.endpoint = <<"/batch/">>
         /\ call.kwargs.json.batch = arg.events
         /\ call.kwargs.json.api_key = client.project_api_key.str
         /\ \A i \in DOMAIN log :
                /\ log[i].request.method = "POST"
                /\ log[i].request.url = client.capture_url \o <<"/batch/">>
                /\ log[i].request.kwargs = call.kwargs

C18_HealthCheckNeverRaises ==
    /\ (op = "health_check" /\ pc = "done") =>
           /\ op_result.kind = "return"
           /\ mr_result.kind = "return" => op_result.value = BoolValue(TRUE)
           /\ mr_result.kind = "raise" => op_result.value = BoolValue(FALSE)
           /\ call = ProjectInfoCall(client)
    /\ (op # "health_check" /\ pc = "done" /\ mr_result.kind = "raise") =>
           op_result.kind = "raise"

\* the project-info request failed with an error outside the taxonomy and
\* health_check returned False
C18_Witness ==
    /\ op = "health_check"
    /\ pc = "done"
    /\ mr_result.kind = "raise"
    /\ ~IsPostHogError(mr_result.exc)
    /\ op_result = Return(BoolValue(FALSE))

(* ------------------------------- C19 ---------------------------------- *)

\* the state of a client no operation has been called on
Fresh ==
    /\ op = "none"
    /\ arg = NoneArg
    /\ n_calls = 0
    /\ call = NoCall
    /\ attempt = 0
    /\ log = <<>>
    /\ outcome = NoResponse
    /\ mr_result = NoResult
    /\ op_result = NoResult

\* C19: no operation, whether it succeeds or fails, changes the client's
\* configuration (api_url, capture_url, api_key, project_id,
\* project_api_key, timeout, max_retries): the client is at every moment as
\* its constructor made it, so that the operation after a failed one starts
\* from the state of a freshly constructed client.
C19_ConfigurationUnchanged ==
    /\ client = NewClient(ctor.args, ctor.env)
    /\ pc = "idle" => Fresh

\* an operation has failed after a retry and the client is as constructed
C19_Witness ==
    /\ pc = "done"
    /\ Len(log) >= 2
    /\ op_result.kind = "raise"
    /\ client.max_retries = ctor.args.max_retries
    /\ client.api_url = ApiUrlOf(ctor.args, ctor.env)

(* ------------------------------- C20 ---------------------------------- *)

\* the value the mapping has for the name, if it has one
Mapped(template_vars, n) ==
    {template_vars[i].value :
        i \in {j \in DOMAIN template_vars : template_vars[j].name = n}}

\* the template with every occurrence of {name}, for the names of the
\* mapping, replaced by the mapped string, and every other piece as it is
RECURSIVE EveryOccurrenceReplaced(_, _)
EveryOccurrenceReplaced(template, template_vars) ==
    IF template = <<>> THEN <<>>
    ELSE IF /\ Len(template) >= 3
            /\ template[1] = "{"
            /\ template[3] = "}"
            /\ Mapped(template_vars, <<template[2]>>) # {}
    THEN (CHOOSE v \in Mapped(template_vars, <<template[2]>>) : TRUE)
             \o EveryOccurrenceReplaced(SubSeq(template, 4, Len(template)),
                                        template_vars)
    ELSE <<Head(template)>>
             \o EveryOccurrenceReplaced(Tail(template), template_vars)

\* execute_template found its template and got as far as the sandbox
Substituted == op = "execute_template" /\ "script" \in DOMAIN call

\* C20 as stated: execute_template replaces every occurrence of {name}, for
\* each name of the caller's mapping, by the mapped string and changes no
\* other character of the template; a placeholder whose name is not in the
\* mapping passes through literally into the executed script, and no error
\* is raised.
C20_EveryPlaceholderReplaced ==
    /\ Substituted =>
           call.script =
               EveryOccurrenceReplaced(ctor.templates[ctor.template_name],
                                       ctor.template_vars)
    /\ (op = "execute_template" /\ ctor.template_name = "t") => Substituted

\* for a mapping of at most one name the substitution is as C20 states it,
\* the script goes to the sandbox with nothing but the credentials filled in,
\* and a name the registry does not have is answered with a result that says
\* so
C20_HoldsForOneName ==
    /\ (Substituted /\ Len(ctor.template_vars) <= 1) =>
           /\ call.script =
                  EveryOccurrenceReplaced(ctor.templates[ctor.template_name],
                                          ctor.template_vars)
           /\ call.code = ReplaceAll(call.script, <<"<api_key_placeholder>">>,
                                     <<"phx_personal">>)
    /\ (op = "execute_template" /\ ctor.template_name = "missing") =>
           /\ pc = "done"
           /\ op_result.kind = "return"
           /\ op_result.value.fields.success = FALSE

(* ------------------------------- C21 ---------------------------------- *)

\* get_template has ended
TemplateResolved == pc = "done" /\ op = "get_template"

\* the name is one of the registry
Registered(name) == \E i \in DOMAIN TEMPLATES : TEMPLATES[i].name = name

\* C21: resolving a name the registry does not have fails with a KeyError
\* (not the taxonomy's ObjectNotFoundError) whose message names every valid
\* template name; a registered name returns the registered template string
\* unchanged.
C21_UnknownNameIsKeyError ==
    TemplateResolved =>
        /\ ~Registered(ctor.name) =>
               /\ op_result.kind = "raise"
               /\ op_result.exc = "KeyError"
               /\ op_result.exc \notin Taxonomy
               /\ \A i \in DOMAIN TEMPLATES :
                      \E j \in DOMAIN op_result.msg :
                          op_result.msg[j] = TEMPLATES[i].name
        /\ \A i \in DOMAIN TEMPLATES :
               ctor.name = TEMPLATES[i].name =>
                   op_result = Return(TEMPLATES[i].template)

\* the name of a driver object, which is no template, was asked for
C21_Witness ==
    /\ TemplateResolved
    /\ ctor.name = "events"
    /\ op_result.kind = "raise"

(* ------------------------------- C22 ---------------------------------- *)

\* question_to_query has ended
Routed == pc = "done" /\ op = "question_to_query"

\* the categories, in the order of their precedence
CategoryOrder ==
    <<"top_events", "user_funnel", "conversion_analysis",
      "activity_distribution", "time_patterns">>

\* the keyword list of a category
KeywordsOf(category) ==
    UNION {Routes[i].words : i \in {j \in DOMAIN Routes : Routes[j].template = category}}

\* a member of the category's keyword list occurs in the lower-cased question
Mentions(question, category) ==
    \E word \in KeywordsOf(category) : Occurs(word, Lower(question))

\* the query of a category for a time period
QueryOf(category, time_period) ==
    Format(QUERY_TEMPLATES[category], DaysOf(time_period))

\* the question in capitals
UpperCase == [c \in {LowerCase[u] : u \in DOMAIN LowerCase} |->
                 CHOOSE u \in DOMAIN LowerCase : LowerCase[u] = c]

Capitals(s) ==
    [i \in DOMAIN s |-> IF s[i] \in DOMAIN UpperCase THEN UpperCase[s[i]] ELSE s[i]]

\* C22: question_to_query classifies the lower-cased question by ordered
\* keyword membership: the first category whose keyword list has a member
\* occurring in the text wins, in the order top events, funnel, conversion,
\* activity, time; a question matching no list gets the top-events query;
\* the result does not depend on the letter case of the question.
C22_FirstCategoryWins ==
    Routed =>
        /\ op_result.kind = "return"
        /\ \A k \in DOMAIN CategoryOrder :
               (/\ Mentions(ctor.question, CategoryOrder[k])
                /\ \A e \in 1 .. k - 1 : ~Mentions(ctor.question, CategoryOrder[e]))
                   => op_result.value = QueryOf(CategoryOrder[k], ctor.time_period)
        /\ (\A k \in DOMAIN CategoryOrder : ~Mentions(ctor.question, CategoryOrder[k]))
               => op_result.value = QueryOf("top_events", ctor.time_period)
        /\ question_to_query(Lower(ctor.question), ctor.time_period) = op_result.value
        /\ question_to_query(Capitals(ctor.question), ctor.time_period) = op_result.value

\* a question in mixed case that mentions a conversion keyword before a
\* funnel keyword was routed to the funnel query
C22_Witness ==
    /\ Routed
    /\ ctor.question # Lower(ctor.question)
    /\ Mentions(ctor.question, "user_funnel")
    /\ Mentions(ctor.question, "conversion_analysis")
    /\ Head(ctor.question) = "b"
    /\ op_result.value = QueryOf("user_funnel", ctor.time_period)

(* ------------------------------- C23 ---------------------------------- *)

\* execute_script has returned the result of a run of the sandbox
ScriptRan ==
    /\ pc = "done"
    /\ op = "execute_template"
    /\ "kind" \in DOMAIN outcome
    /\ outcome.kind = "result"

\* C23: in every result returned by execute_script, success is true exactly
\* when the sandbox reported no error for the run, whatever the script
\* printed (the result of run_code carries no exit code); when success is
\* true error is null, and when success is false output is the empty string
\* and error is the text of the sandbox's error.
C23_SuccessIsNoError ==
    ScriptRan =>
        /\ op_result.kind = "return"
        /\ op_result.value.fields.success \in BOOLEAN
        /\ op_result.value.fields.success <=> outcome.error = NoError
        /\ op_result.value.fields.success =>
               op_result.value.fields.error = NoneStr
        /\ ~op_result.value.fields.success =>
               /\ op_result.value.fields.output = ""
               /\ op_result.value.fields.error = Str(StrOfError(outcome.error))
               /\ op_result.value.fields.error # NoneStr

\* a run that printed before the sandbox reported its error
C23_Witness ==
    /\ ScriptRan
    /\ outcome.stdout = "partial"
    /\ outcome.error.name = "NameError"
    /\ ~op_result.value.fields.success

(* ------------------------------- C24 ---------------------------------- *)

IsRun(c) == c.call = "run_code"

\* the runs of the sandbox so far, in their order
Runs == SelectSeq(log, IsRun)

\* batch_execute has been called
InBatch == op = "batch_execute"

\* batch_execute has returned its list
BatchReturned == InBatch /\ op_result.kind = "return"

\* C24: batch_execute runs the given scripts in list order, each at most
\* once, and stops at the first script whose result has success false: the
\* returned list holds the results of a prefix of the input in order, every
\* result but possibly the last is successful, and no script after the first
\* failure is ever executed. Each execute_script call runs the sandbox
\* exactly once, with no retry.
C24_StopsAtFirstFailure ==
    InBatch =>
        /\ \A j \in DOMAIN Runs :
               /\ Runs[j].script = j
               /\ j <= Len(ctor.scripts)
               /\ \A e \in 1 .. j - 1 : call.results[e].fields.success
        /\ Len(Runs) = Len(call.results) + (IF op_result.kind = "raise" THEN 1 ELSE 0)
        /\ \A j \in DOMAIN call.results :
               /\ call.results[j].fields.description = DescriptionOf(ctor.scripts[j])
               /\ j < Len(call.results) => call.results[j].fields.success
        /\ BatchReturned =>
               /\ op_result.value = ListValue(call.results)
               /\ \/ Len(call.results) = Len(ctor.scripts)
                  \/ ~call.results[Len(call.results)].fields.success
               /\ Len(call.results) > 0 =>
                      call.results[Len(call.results)].fields.success
                          = (outcome.error = NoError)

\* of two scripts the first failed: one run, a list of one result
C24_Witness ==
    /\ BatchReturned
    /\ pc = "ended"
    /\ Len(ctor.scripts) = 2
    /\ Len(call.results) = 1
    /\ Len(Runs) = 1
    /\ ~call.results[1].fields.success

(* ------------------------------- C29 ---------------------------------- *)

IsCreate(c) == c.call = "Sandbox"

IsKill(c) == c.call = "kill"

\* the sandboxes created, and the kills, so far
Created == Len(SelectSeq(log, IsCreate))

Kills == Len(SelectSeq(log, IsKill))

\* the with statement is over, by its last statement or by an exception
WithEnded == pc = "ended"

\* C29 as stated: every sandbox created by __enter__ is killed exactly once:
\* on normal exit of the with block, on an exception in the block, and also
\* when driver upload or dependency installation fails inside __enter__
\* after the sandbox was created. (A sandbox is never killed twice, and when
\* the with statement is over each created sandbox has been killed.)
C29_EverySandboxKilledOnce ==
    /\ Kills <= Created
    /\ WithEnded => Kills = Created

\* when __enter__ has returned, the sandbox is killed exactly once by the
\* time the with statement is over, whether the block returned or raised
C29_KilledOnceAfterEnter ==
    /\ Kills <= Created
    /\ Created <= 1
    /\ (WithEnded /\ op = "batch_execute") => (Created = 1 /\ Kills = 1)

(* ------------------------------- C25 ---------------------------------- *)

\* how often the tool of the invocation with this id was executed
TimesExecuted(id) == Cardinality({k \in DOMAIN call.executed : call.executed[k] = id})

\* the i-th message is an assistant message whose tool_use block b is
\* answered: the next message is a user message with a tool_result for b.id
Answered(i, b) ==
    /\ i + 1 <= Len(log)
    /\ log[i + 1].role = "user"
    /\ \E r \in DOMAIN log[i + 1].content :
           /\ log[i + 1].content[r].type = "tool_result"
           /\ log[i + 1].content[r].id = b.id

\* every tool_use block of the messages sent with the latest request to the
\* LLM was executed once and is answered
EveryInvocationAnswered ==
    \A i \in DOMAIN log :
        log[i].role = "assistant" =>
            \A k \in DOMAIN log[i].content :
                log[i].content[k].type = "tool_use" =>
                    /\ Answered(i, log[i].content[k])
                    /\ TimesExecuted(log[i].content[k].id) = 1

\* C25 as stated: in the agent tool-call loops, every tool-invocation
\* request contained in a response with stop reason tool_use is executed
\* once and answered by a tool result keyed by that invocation's own
\* identifier, appended after the assistant message that requested it and
\* before the next request to the LLM; no invocation in such a response is
\* left without a result.
C25_EveryInvocationAnswered ==
    op \in {"run_claude_agent", "main"} => EveryInvocationAnswered

\* the loop of main answers every invocation; the loop of run_claude_agent
\* answers the first invocation of each response, and so every invocation
\* of a response that holds one
C25_FirstInvocationAnswered ==
    /\ op = "main" => EveryInvocationAnswered
    /\ op = "run_claude_agent" =>
           \A i \in DOMAIN log :
               log[i].role = "assistant" =>
                   LET uses == SelectSeq(log[i].content, IsToolUse)
                   IN  /\ Len(uses) >= 1
                       /\ Answered(i, uses[1])
                       /\ TimesExecuted(uses[1].id) = 1
                       /\ \A k \in 2 .. Len(uses) :
                              /\ ~Answered(i, uses[k])
                              /\ TimesExecuted(uses[k].id) = 0

(* ------------------------------- C26 ---------------------------------- *)

\* the most attempts range(max_retries) permits
Ceiling == IF client.max_retries > 0 THEN client.max_retries ELSE 0

\* C26 as stated: for every max_retries and every sequence of per-attempt
\* outcomes, _make_request ends after at most max_retries attempts; the
\* number of HTTP attempts made by one call never exceeds max_retries.
C26_AttemptsWithinMaxRetries ==
    n_calls >= 1 =>
        /\ Len(log) <= client.max_retries
        /\ pc = "attempting" => Len(log) < client.max_retries

\* C26 amended: the number of attempts of one call never exceeds max_retries
\* or, for a negative max_retries, zero; while the call has not ended every
\* pass of the loop adds one attempt and fewer than max_retries are made, so
\* the call has returned or raised by the time the ceiling is reached.
C26_AttemptsWithinCeiling ==
    /\ Len(log) <= Ceiling
    /\ pc = "attempting" =>
           /\ attempt = Len(log)
           /\ Len(log) < Ceiling
           /\ mr_result.kind = "none"
    /\ (pc = "done" /\ n_calls >= 1) => mr_result.kind \in {"return", "raise"}

\* a call that used up a ceiling of three attempts and ended
C26_Witness ==
    /\ Ended
    /\ client.max_retries = 3
    /\ Len(log) = 3

(* ------------------------------- C27 ---------------------------------- *)

\* the outcome of the latest attempt
LastOutcome == log[Len(log)].outcome

IsPlainConnectionFailure(s) == IsConnectionFailure(s) /\ ~IsTimeout(s)

IsPlainTimeout(s) == IsTimeout(s) /\ ~IsConnectionFailure(s)

\* C27: the failure kind _make_request surfaces on exhaustion depends only
\* on the outcome of the last attempt, not on earlier ones: whatever the
\* attempts before it ended in, a last permitted attempt that ended in a
\* connection failure surfaces ConnectionError, one that ended in a timeout
\* (and no connection failure) the generic timeout failure, one that
\* received a 5xx response the generic HTTP failure.
C27_LastAttemptDecides ==
    (Ended /\ LastPermittedAttempt) =>
        /\ IsConnectionFailure(LastOutcome) =>
               /\ mr_result.kind = "raise"
               /\ mr_result.exc = "ConnectionError"
        /\ IsPlainTimeout(LastOutcome) =>
               /\ mr_result.kind = "raise"
               /\ mr_result.exc = "PostHogError"
               /\ mr_result.msg =
                      <<"Request timeout after ", ToString(client.timeout), " seconds">>
        /\ IsStatus(LastOutcome, 500, 599) =>
               /\ mr_result.kind = "raise"
               /\ mr_result.exc = "PostHogError"
               /\ Head(mr_result.msg) = "HTTP error: "

\* connection failure, connection failure, timeout with max_retries = 3:
\* the generic timeout failure
C27_Witness ==
    /\ Ended
    /\ client.max_retries = 3
    /\ Len(log) = 3
    /\ IsPlainConnectionFailure(log[1].outcome)
    /\ IsPlainConnectionFailure(log[2].outcome)
    /\ IsPlainTimeout(log[3].outcome)
    /\ mr_result.kind = "raise"
    /\ mr_result.exc = "PostHogError"

\* timeout, timeout, connection failure with max_retries = 3: ConnectionError
C27_OtherExample ==
    /\ Ended
    /\ client.max_retries = 3
    /\ Len(log) = 3
    /\ IsPlainTimeout(log[1].outcome)
    /\ IsPlainTimeout(log[2].outcome)
    /\ IsPlainConnectionFailure(log[3].outcome)
    /\ mr_result.kind = "raise"
    /\ mr_result.exc = "ConnectionError"

(* ------------------------------- C28 ---------------------------------- *)

\* C28 as stated: every call of _make_request ends either by returning a
\* response value (parsed JSON or the {success, status_code} indicator) or
\* by raising a failure of the taxonomy; in particular with max_retries <= 0
\* it does not return without a value and without having made an attempt.
C28_ValueOrTaxonomyFailure ==
    Ended =>
        \/ /\ mr_result.kind = "return"
           /\ mr_result.value.type # "None"
           /\ Len(log) >= 1
        \/ /\ mr_result.kind = "raise"
           /\ mr_result.exc \in Taxonomy

\* a call that made an attempt returned a value or raised; what it raised
\* is of the taxonomy unless session.request raised an exception that is
\* neither a requests.ConnectionError nor a requests.Timeout
C28_HoldsForClassifiedOutcomes ==
    (Ended /\ Len(log) >= 1) =>
        \/ /\ mr_result.kind = "return"
           /\ mr_result.value.type # "None"
        \/ /\ mr_result.kind = "raise"
           /\ \/ mr_result.exc \in Taxonomy
              \/ /\ LastOutcome.type = "exception"
                 /\ LastOutcome.bases = {}
                 /\ mr_result.exc = "requests.RequestException"

(* ------------------------------- C30 ---------------------------------- *)

\* the items of a mapping in the opposite iteration order
Reversed(template_vars) ==
    [i \in DOMAIN template_vars |-> template_vars[Len(template_vars) + 1 - i]]

\* the template with its placeholders, those of the mapping and the
\* credential placeholder, replaced at once: what is written in is not
\* looked at again
RECURSIVE ReplacedAtOnce(_, _, _)
ReplacedAtOnce(template, template_vars, ex) ==
    IF template = <<>> THEN <<>>
    ELSE IF /\ Len(template) >= 3
            /\ template[1] = "{"
            /\ template[3] = "}"
            /\ Mapped(template_vars, <<template[2]>>) # {}
    THEN (CHOOSE v \in Mapped(template_vars, <<template[2]>>) : TRUE)
             \o ReplacedAtOnce(SubSeq(template, 4, Len(template)),
                               template_vars, ex)
    ELSE (IF Head(template) = "<api_key_placeholder>"
          THEN <<ex.posthog_api_key>>
          ELSE <<Head(template)>>)
             \o ReplacedAtOnce(Tail(template), template_vars, ex)

\* C30 as stated: the result of execute_template's substitution is the same
\* for every iteration order of the variable mapping and equals simultaneous
\* substitution: a substituted value is never itself rescanned, neither for
\* another variable's {name} placeholder nor for the credential placeholders
\* that execute_script fills in afterwards.
C30_SimultaneousSubstitution ==
    Substituted =>
        /\ call.script = Substitute(ctor.templates[ctor.template_name],
                                    Reversed(ctor.template_vars))
        /\ call.code = ReplacedAtOnce(ctor.templates[ctor.template_name],
                                      ctor.template_vars, Executor)

\* with values that hold no brace and no credential placeholder, and a
\* template whose braces all belong to the placeholders {a} and {b}, the
\* substitution is the same in either order and simultaneous
C30_HoldsForPlainValues ==
    (/\ Substituted
     /\ \A i \in DOMAIN ctor.template_vars :
            ctor.template_vars[i].value \in {<<"x">>, <<>>}
     /\ \A k \in DOMAIN ctor.templates[ctor.template_name] :
            ctor.templates[ctor.template_name][k] \in {"a", "b", "<api_key_placeholder>"}
            \/ (k >= 1 /\ k + 2 <= Len(ctor.templates[ctor.template_name])
                /\ SubSeq(ctor.templates[ctor.template_name], k, k + 2)
                       \in {<<"{", "a", "}">>, <<"{", "b", "}">>})
            \/ (k >= 3
                /\ SubSeq(ctor.templates[ctor.template_name], k - 2, k)
                       \in {<<"{", "a", "}">>, <<"{", "b", "}">>})) =>
        /\ call.script = Substitute(ctor.templates[ctor.template_name],
                                    Reversed(ctor.template_vars))
        /\ call.code = ReplacedAtOnce(ctor.templates[ctor.template_name],
                                      ctor.template_vars, Executor)

=============================================================================
